---- MODULE Spec2Model ----
(***************************************************************************)
(* Model of research-newsfeed: the fetch / sort / dedupe / render pipeline *)
(* of daily_digest.py, the source adapters under sources/, and the         *)
(* dashboard's fetch_all of streamlit_app.py.                              *)
(*                                                                         *)
(* Python values are modelled as follows.  None is the string NoneVal for  *)
(* string-valued fields and the number NoTime for timestamps.  A dict with *)
(* insertion order (the bucket map) is a sequence of records               *)
(* [name, items].  A text whose characters matter (a summary) is a         *)
(* sequence of one-character strings.  Every item carries oid, the         *)
(* identity of the Python object: the position at which its adapter        *)
(* returned it.                                                            *)
(***************************************************************************)
EXTENDS Integers, Sequences, FiniteSets, TLC

VARIABLES
    pc,       \* position of the run: "start", then one value per completed step
    cfg,      \* the configuration the run was started with (an input)
    world,    \* what the providers answer (an input)
    arg,      \* the argument of the function under analysis (an input)
    buckets,  \* the bucket map {source name: [items]}
    ret,      \* what the last operation returned or emitted
    err       \* the exception that propagated out of the operation, "" if none

vars == <<pc, cfg, world, arg, buckets, ret, err>>

\* ---------------------------------------------------------------- bounds

\* Longest bucket handed to dedupe_buckets.
MaxItems == 3

\* Longest second bucket handed to dedupe_buckets.
MaxOther == 1

\* Most source blocks a drawn configuration declares.
MaxBlocks == 2

\* Longest provider listing drawn for the sort.
MaxEntries == 3

\* ------------------------------------------------------- Python values

NoneVal == "<None>"

NoTime == 0

\* Python truthiness of a string-or-None value: None and "" are falsy.
Falsy(v) == v = NoneVal \/ v = ""

\* Python's  a or b  on string-or-None values.
Or(a, b) == IF Falsy(a) THEN b ELSE a

Min(a, b) == IF a <= b THEN a ELSE b

Range(s) == {s[i] : i \in 1..Len(s)}

SeqsUpTo(S, n) == UNION {[1..k -> S] : k \in 0..n}

\* items[:n]
Take(s, n) == SubSeq(s, 1, Min(n, Len(s)))

\* The display names fetch_all uses as bucket keys, in the order of its six
\* if-statements.
SourceNames == <<"arXiv", "OpenReview", "ACL Anthology", "Reddit", "Hacker News", "Hackernoon">>

\* --------------------------------------------------------------- text

\* A text is a sequence of one-character strings.  The ellipsis character.
Ellipsis == "..."

IsSpace(c) == c = " " \/ c = "\n"

RECURSIVE LStrip(_)
LStrip(s) == IF s # <<>> /\ IsSpace(Head(s)) THEN LStrip(Tail(s)) ELSE s

RECURSIVE RStrip(_)
RStrip(s) ==
    IF s # <<>> /\ IsSpace(s[Len(s)]) THEN RStrip(SubSeq(s, 1, Len(s) - 1)) ELSE s

\* str.strip()
Strip(s) == RStrip(LStrip(s))

\* The largest position of a space character in s, 0 if s holds none.
LastSpace(s) ==
    LET P == {i \in 1..Len(s) : s[i] = " "}
    IN  IF P = {} THEN 0 ELSE CHOOSE i \in P : \A j \in P : j <= i

\* s.rsplit(" ", 1)[0]: what precedes the last space; all of s when s holds no
\* space.
RSplitHead(s) ==
    IF LastSpace(s) = 0 THEN s ELSE SubSeq(s, 1, LastSpace(s) - 1)

\* if len(summary) > budget: summary = summary[:budget].rsplit(" ", 1)[0] + "…"
Truncate(summary, budget) ==
    IF Len(summary) > budget
    THEN Append(RSplitHead(SubSeq(summary, 1, budget)), Ellipsis)
    ELSE summary

\* str.lower() on the characters the model draws.
LowerChar(c) ==
    CASE c = "A" -> "a"
      [] c = "B" -> "b"
      [] c = "I" -> "i"
      [] c = "N" -> "n"
      [] c = "O" -> "o"
      [] c = "E" -> "e"
      [] c = "U" -> "u"
      [] c = "L" -> "l"
      [] OTHER   -> c

\* Mutant of Lower: the letter case is kept.
LowerKept(s) == s

Lower(s) == [i \in 1..Len(s) |-> LowerChar(s[i])]

\* k in t  (substring)
Contains(t, k) ==
    \E i \in 0..(Len(t) - Len(k)) : SubSeq(t, i + 1, i + Len(k)) = k

\* f"{title}\n{summary}"
Hay(title, summary) == title \o <<"\n">> \o summary

\* ------------------------------------------------------------- utils
\* utils.py as shipped defines none of any_keyword_match, none_keyword_match
\* and is_recent, which every adapter imports from it; they are modelled from
\* sections 4.1 and 4.2 of the specification.

\* Ticks of the model's clock per day.
DayTicks == 2

\* Mutant of IsRecent: a non-positive window filters like any other.
IsRecentNoZero(timestamp, lookback_days, now) ==
    \/ timestamp = NoTime
    \/ now - timestamp <= lookback_days * DayTicks

\* is_recent(timestamp, lookback_days), with the clock reading made explicit.
IsRecent(timestamp, lookback_days, now) ==
    \/ lookback_days <= 0
    \/ timestamp = NoTime
    \/ now - timestamp <= lookback_days * DayTicks

\* Mutant of AnyKeywordMatch: the comparison keeps the letter case.
AnyKeywordMatchCased(text, keywords) ==
    \/ keywords = <<>>
    \/ \E i \in 1..Len(keywords) : Contains(text, keywords[i])

\* any_keyword_match(text, keywords)
AnyKeywordMatch(text, keywords) ==
    \/ keywords = <<>>
    \/ \E i \in 1..Len(keywords) : Contains(Lower(text), Lower(keywords[i]))

\* none_keyword_match(text, keywords)
NoneKeywordMatch(text, keywords) ==
    \A i \in 1..Len(keywords) : ~Contains(Lower(text), Lower(keywords[i]))

\* ----------------------------------------------------- configuration
\* A dict with optional keys is a record with every field and the set  has  of
\* the keys that are present.

\* d.get(k, default)
Get(d, k, default) == IF k \in d.has THEN d[k] ELSE default

\* The config keys of the six sources, in the order fetch_all tests them.
SourceKeys == <<"arxiv", "openreview", "acl", "reddit", "hn", "hackernoon">>

\* The {} that  scfg.get(key, {})  gives for a source without a config block.
\* The field  targets  stands for the adapter's own target list: categories,
\* venues, feeds or subreddits.
EmptyBlock(key) ==
    [key |-> key, has |-> {}, enabled |-> TRUE, targets |-> <<>>,
     lookback_days |-> 0, include_keywords |-> <<>>, exclude_keywords |-> <<>>,
     fetch_all |-> FALSE, max_pages_per_category |-> 0,
     max_results_per_category |-> 0]

\* scfg.get(key, {}), scfg being the sequence of the config's source blocks in
\* the order the file declares them.
BlockOf(scfg, key) ==
    IF \E i \in 1..Len(scfg) : scfg[i].key = key
    THEN scfg[CHOOSE i \in 1..Len(scfg) : scfg[i].key = key]
    ELSE EmptyBlock(key)

\* Mutant of SourceEnabled: the enabled flag is not read.
SourceEnabledAlways(scfg, key) == TRUE

\* (scfg.get(key) or {}).get("enabled", True)
SourceEnabled(scfg, key) == Get(BlockOf(scfg, key), "enabled", TRUE)

\* _effective_keywords(config, global_filters, key), for key "include_keywords"
EffectiveInclude(config, gf) ==
    IF "include_keywords" \in config.has THEN config.include_keywords
    ELSE gf.include_keywords

\* _effective_keywords(config, global_filters, key), for key "exclude_keywords"
EffectiveExclude(config, gf) ==
    IF "exclude_keywords" \in config.has THEN config.exclude_keywords
    ELSE gf.exclude_keywords

\* The global filters gf that fetch_all builds from the config.
GlobalFilters(c) ==
    [has |-> {"lookback_days", "include_keywords", "exclude_keywords", "priority_authors"},
     lookback_days    |-> Get(c, "lookback_days", 7),
     include_keywords |-> Get(c, "include_keywords", <<>>),
     exclude_keywords |-> Get(c, "exclude_keywords", <<>>),
     priority_authors |-> LET pa == Get(c, "priority_authors", <<>>)
                          IN  [i \in 1..Len(pa) |-> Lower(pa[i])]]

\* ------------------------------------------------------------ adapters
\* A provider entry is a record [id, link, comments, pdf, title, summary, pub,
\* titled, ver, authors]: pub is a time, NoTime when the entry carries no date and
\* BadTime when its date string does not parse; titled is whether an
\* OpenReview note's content has a title; ver is the version suffix of an
\* arXiv id (0: none).  The world gives per source [client, resp]: resp[t] is
\* the provider's answer for target t, [status, entries, pages], status "ok",
\* "fail" (the call fails: requests raises, get_all_notes raises, feedparser
\* gives an empty bozo feed) or "raise" (feedparser.parse itself raises);
\* client is whether the OpenReview client can be created.  An adapter call
\* gives [raised, items], raised being the exception that leaves fetch, ""
\* when it returns.

BadTime == -1

\* dateparser.parse(published).astimezone(timezone.utc) under try/except: a
\* missing or unparseable date gives None.
ParsePublished(pub) == IF pub = BadTime THEN NoTime ELSE pub

\* The item dict an adapter appends.
MakeItem(id, title, summary, published, source, category, link, pdf) ==
    [id |-> id, title |-> title, summary |-> summary, published |-> published,
     source |-> source, category |-> category, link |-> link, pdf |-> pdf, oid |-> 0]

\* The list an adapter returns: every item is a fresh object, identified by its
\* position in that list.
WithOid(items) == [i \in 1..Len(items) |-> [items[i] EXCEPT !.oid = i]]

Returned(items) == [raised |-> "", items |-> WithOid(items)]

Raised(exc) == [raised |-> exc, items |-> <<>>]

\* _clean_html_to_text(html) on a text without markup: html.strip().
CleanHtmlToText(html) == Strip(html)

\* The summary budget of the Hacker News adapter (240 characters in the code),
\* in the scale of the model's texts.
HnBudget == 4

\* The summary budget of render_html and render_plaintext (280 characters in
\* the code), in the scale of the model's texts.
RenderBudget == 5

\* include_keywords and not any_keyword_match(hay, include_keywords), or an
\* exclude keyword hits: the entry is filtered out.
KeywordDrop(hay, inc, exc) ==
    \/ inc # <<>> /\ ~AnyKeywordMatch(hay, inc)
    \/ ~NoneKeywordMatch(hay, exc)

RECURSIVE HnEntries(_, _, _, _, _, _, _)
\* sources/hn.py: the loop  for e in feed.entries  of one feed; acc = [out, seen].
HnEntries(entries, url, lookback, inc, exc, now, acc) ==
    IF entries = <<>> THEN acc
    ELSE LET e            == Head(entries)
             rest         == Tail(entries)
             published_dt == ParsePublished(e.pub)
             title        == Strip(e.title)
             summary      == Truncate(CleanHtmlToText(e.summary), HnBudget)
             item_id      == Or(Or(e.id, e.comments), e.link)
         IN  IF ~IsRecent(published_dt, lookback, now)
             THEN HnEntries(rest, url, lookback, inc, exc, now, acc)
             ELSE IF KeywordDrop(Hay(title, summary), inc, exc)
             THEN HnEntries(rest, url, lookback, inc, exc, now, acc)
             ELSE IF item_id \in acc.seen
             THEN HnEntries(rest, url, lookback, inc, exc, now, acc)
             ELSE HnEntries(rest, url, lookback, inc, exc, now,
                    [out  |-> Append(acc.out,
                                MakeItem(item_id, <<"[HN] ">> \o title, summary,
                                         published_dt, "Hacker News", url,
                                         Or(e.comments, e.link), "")),
                     seen |-> acc.seen \cup {item_id}])

RECURSIVE HnFeeds(_, _, _, _, _, _, _)
\* sources/hn.py: the loop  for url in feeds; a failing request is skipped.
HnFeeds(feeds, resp, lookback, inc, exc, now, acc) ==
    IF feeds = <<>> THEN acc
    ELSE LET url == Head(feeds)
         IN  IF resp[url].status # "ok"
             THEN HnFeeds(Tail(feeds), resp, lookback, inc, exc, now, acc)
             ELSE HnFeeds(Tail(feeds), resp, lookback, inc, exc, now,
                          HnEntries(resp[url].entries, url, lookback, inc, exc, now, acc))

\* sources/hn.py fetch(config, global_filters)
HnFetch(config, gf, w, now) ==
    Returned(HnFeeds(Get(config, "targets", <<"https://hnrss.org/frontpage">>),
                     w.resp,
                     Get(config, "lookback_days", Get(gf, "lookback_days", 7)),
                     EffectiveInclude(config, gf), EffectiveExclude(config, gf),
                     now, [out |-> <<>>, seen |-> {}]).out)

RECURSIVE HackernoonEntries(_, _, _, _, _, _, _)
\* sources/hackernoon.py: the loop  for e in feed.entries; acc = [out, seen].
HackernoonEntries(entries, url, lookback, inc, exc, now, acc) ==
    IF entries = <<>> THEN acc
    ELSE LET e            == Head(entries)
             rest         == Tail(entries)
             published_dt == ParsePublished(e.pub)
             title        == Strip(e.title)
             summary      == CleanHtmlToText(e.summary)
             item_id      == Or(e.id, e.link)
         IN  IF ~IsRecent(published_dt, lookback, now)
             THEN HackernoonEntries(rest, url, lookback, inc, exc, now, acc)
             ELSE IF KeywordDrop(Hay(title, summary), inc, exc)
             THEN HackernoonEntries(rest, url, lookback, inc, exc, now, acc)
             ELSE IF item_id \in acc.seen
             THEN HackernoonEntries(rest, url, lookback, inc, exc, now, acc)
             ELSE HackernoonEntries(rest, url, lookback, inc, exc, now,
                    [out  |-> Append(acc.out,
                                MakeItem(item_id, <<"[Hackernoon] ">> \o title, summary,
                                         published_dt, "Hackernoon", url, e.link, "")),
                     seen |-> acc.seen \cup {item_id}])

RECURSIVE HackernoonFeeds(_, _, _, _, _, _, _)
\* sources/hackernoon.py: the loop  for url in feeds; a failing request is skipped.
HackernoonFeeds(feeds, resp, lookback, inc, exc, now, acc) ==
    IF feeds = <<>> THEN acc
    ELSE LET url == Head(feeds)
         IN  IF resp[url].status # "ok"
             THEN HackernoonFeeds(Tail(feeds), resp, lookback, inc, exc, now, acc)
             ELSE HackernoonFeeds(Tail(feeds), resp, lookback, inc, exc, now,
                    HackernoonEntries(resp[url].entries, url, lookback, inc, exc, now, acc))

\* sources/hackernoon.py fetch(config, global_filters)
HackernoonFetch(config, gf, w, now) ==
    Returned(HackernoonFeeds(Get(config, "targets", <<"https://hackernoon.com/feed">>),
                             w.resp,
                             Get(config, "lookback_days", Get(gf, "lookback_days", 7)),
                             EffectiveInclude(config, gf), EffectiveExclude(config, gf),
                             now, [out |-> <<>>, seen |-> {}]).out)

\* The default of preview_chars of the Reddit adapter (300 characters in the
\* code), in the scale of the model's texts.
PreviewChars == 6

\* The three characters the Reddit adapter appends to a cut preview.
RedditEllipsis == "U+00E2 U+20AC U+00A6"

\* selftext with \r and \n replaced by spaces
FlattenLines(t) == [i \in 1..Len(t) |-> IF t[i] = "\n" THEN " " ELSE t[i]]

RECURSIVE RedditChildren(_, _, _, _, _, _, _)
\* sources/reddit.py: the loop over the children of one subreddit listing.
RedditChildren(children, sub, lookback, inc, exc, now, out) ==
    IF children = <<>> THEN out
    ELSE LET d            == Head(children)
             rest         == Tail(children)
             title        == Strip(d.title)
             selftext     == Strip(d.summary)
             link         == d.link
             published_dt == ParsePublished(d.pub)
             flat         == FlattenLines(selftext)
             text         == IF Len(flat) > PreviewChars
                             THEN Append(RSplitHead(SubSeq(flat, 1, PreviewChars)),
                                         RedditEllipsis)
                             ELSE flat
         IN  IF ~IsRecent(published_dt, lookback, now)
             THEN RedditChildren(rest, sub, lookback, inc, exc, now, out)
             ELSE IF KeywordDrop(Hay(title, selftext), inc, exc)
             THEN RedditChildren(rest, sub, lookback, inc, exc, now, out)
             ELSE RedditChildren(rest, sub, lookback, inc, exc, now,
                    Append(out, MakeItem(IF d.id = NoneVal THEN link ELSE d.id,
                                         <<"[r/", sub, "] ">> \o title, text,
                                         published_dt, "Reddit", sub, link, "")))

RECURSIVE RedditSubs(_, _, _, _, _, _, _)
\* sources/reddit.py: the loop  for s in subs; a failing request is skipped.
RedditSubs(subs, resp, lookback, inc, exc, now, out) ==
    IF subs = <<>> THEN out
    ELSE LET sub == Head(subs)
         IN  IF resp[sub].status # "ok"
             THEN RedditSubs(Tail(subs), resp, lookback, inc, exc, now, out)
             ELSE RedditSubs(Tail(subs), resp, lookback, inc, exc, now,
                    RedditChildren(resp[sub].entries, sub, lookback, inc, exc, now, out))

\* sources/reddit.py fetch(config, global_filters)
RedditFetch(config, gf, w, now) ==
    Returned(RedditSubs(Get(config, "targets", <<>>), w.resp,
                        Get(gf, "lookback_days", 7),
                        EffectiveInclude(config, gf), EffectiveExclude(config, gf),
                        now, <<>>))

RECURSIVE AclEntries(_, _, _, _, _, _, _)
\* sources/acl.py: the loop  for e in feed.entries.
AclEntries(entries, url, lookback, inc, exc, now, out) ==
    IF entries = <<>> THEN out
    ELSE LET e            == Head(entries)
             rest         == Tail(entries)
             published_dt == ParsePublished(e.pub)
             title        == Strip(e.title)
             summary      == Strip(e.summary)
         IN  IF ~IsRecent(published_dt, lookback, now)
             THEN AclEntries(rest, url, lookback, inc, exc, now, out)
             ELSE IF KeywordDrop(Hay(title, summary), inc, exc)
             THEN AclEntries(rest, url, lookback, inc, exc, now, out)
             ELSE AclEntries(rest, url, lookback, inc, exc, now,
                    Append(out, MakeItem(IF e.id = NoneVal THEN e.link ELSE e.id,
                                         title, summary, published_dt,
                                         "ACL Anthology", url, e.link, "")))

RECURSIVE AclFeeds(_, _, _, _, _, _, _)
\* sources/acl.py: the loop  for url in feeds.  feedparser.parse(url) is not
\* guarded: when it raises, the exception leaves fetch; when it swallows the
\* failure it gives a feed without entries.  The result is [raised, out].
AclFeeds(feeds, resp, lookback, inc, exc, now, out) ==
    IF feeds = <<>> THEN [raised |-> "", out |-> out]
    ELSE LET url == Head(feeds)
         IN  IF resp[url].status = "raise"
             THEN [raised |-> "ProviderError", out |-> out]
             ELSE AclFeeds(Tail(feeds), resp, lookback, inc, exc, now,
                    AclEntries(IF resp[url].status = "ok" THEN resp[url].entries ELSE <<>>,
                               url, lookback, inc, exc, now, out))

\* sources/acl.py fetch(config, global_filters)
AclFetch(config, gf, w, now) ==
    LET r == AclFeeds(Get(config, "targets", <<>>), w.resp,
                      Get(gf, "lookback_days", 7),
                      Get(gf, "include_keywords", <<>>),
                      Get(gf, "exclude_keywords", <<>>), now, <<>>)
    IN  IF r.raised # "" THEN Raised(r.raised) ELSE Returned(r.out)

RECURSIVE OpenReviewNotes(_, _, _, _, _, _)
\* sources/openreview.py: the loop  for n in notes.  The recency test is
\* is_recent(published_dt, 1); the title is read with
\* n.content.get("title").get("value"), which raises AttributeError on a note
\* whose content has no title.  The result is [raised, out].
OpenReviewNotes(notes, venue, inc, exc, now, out) ==
    IF notes = <<>> THEN [raised |-> "", out |-> out]
    ELSE LET n            == Head(notes)
             rest         == Tail(notes)
             published_dt == n.pub
             title        == n.title
             abstract     == Strip(n.summary)
         IN  IF ~IsRecent(published_dt, 1, now)
             THEN OpenReviewNotes(rest, venue, inc, exc, now, out)
             ELSE IF ~n.titled
             THEN [raised |-> "AttributeError", out |-> out]
             ELSE IF KeywordDrop(Hay(title, abstract), inc, exc)
             THEN OpenReviewNotes(rest, venue, inc, exc, now, out)
             ELSE OpenReviewNotes(rest, venue, inc, exc, now,
                    Append(out, MakeItem(n.id, title, abstract, published_dt,
                                         "OpenReview", "ICLR 2025", n.link, "")))

RECURSIVE OpenReviewVenues(_, _, _, _, _, _)
\* sources/openreview.py: the loop  for venue in venues; a failing
\* get_all_notes is skipped.
OpenReviewVenues(venues, resp, inc, exc, now, out) ==
    IF venues = <<>> THEN [raised |-> "", out |-> out]
    ELSE LET venue == Head(venues)
         IN  IF resp[venue].status # "ok"
             THEN OpenReviewVenues(Tail(venues), resp, inc, exc, now, out)
             ELSE LET r == OpenReviewNotes(resp[venue].entries, venue, inc, exc, now, out)
                  IN  IF r.raised # "" THEN r
                      ELSE OpenReviewVenues(Tail(venues), resp, inc, exc, now, r.out)

\* sources/openreview.py fetch(config, global_filters): the client is created
\* outside any try.
OpenReviewFetch(config, gf, w, now) ==
    IF ~w.client THEN Raised("OpenReviewException")
    ELSE LET r == OpenReviewVenues(Get(config, "targets", <<>>), w.resp,
                                   EffectiveInclude(config, gf),
                                   EffectiveExclude(config, gf), now, <<>>)
         IN  IF r.raised # "" THEN Raised(r.raised) ELSE Returned(r.out)

\* _norm_arxiv_id(raw_id): the last path segment without its version suffix.
\* An entry's raw id is its id followed by "v<ver>" when ver > 0.
NormArxivId(e) == Or(e.id, e.link)

\* _pick_pdf_link(entry): the entry's PDF link, else its main link.
PickPdfLink(e) == IF e.pdf # NoneVal THEN e.pdf ELSE e.link

RECURSIVE ArxivEntries(_, _, _, _, _, _)
\* sources/arxiv.py: the loop  for e in entries  of one page.  The result is
\* [out, seen, stop], stop being stop_paging.  kw = [inc, exc, pri].
ArxivEntries(entries, cat, cutoff, kw, now, acc) ==
    IF entries = <<>> THEN acc
    ELSE LET e            == Head(entries)
             rest         == Tail(entries)
             published_dt == ParsePublished(e.pub)
             nid          == NormArxivId(e)
             title        == Strip(e.title)
             summary      == Strip(e.summary)
             hay          == Hay(title, summary)
             author_priority ==
                 IF kw.pri # <<>>
                 THEN \E i \in 1..Len(e.authors) : Lower(e.authors[i]) \in Range(kw.pri)
                 ELSE FALSE
             include_ok   == IF kw.inc # <<>> THEN AnyKeywordMatch(hay, kw.inc) ELSE TRUE
             exclude_ok   == NoneKeywordMatch(hay, kw.exc)
         IN  IF cutoff.set /\ published_dt # NoTime /\ published_dt < cutoff.at
             THEN [acc EXCEPT !.stop = TRUE]
             ELSE IF ~cutoff.set /\ "lookback_days" \in kw.gfhas
                     /\ ~IsRecent(published_dt, kw.lookback_days, now)
             THEN ArxivEntries(rest, cat, cutoff, kw, now, acc)
             ELSE IF nid \in acc.seen
             THEN ArxivEntries(rest, cat, cutoff, kw, now, acc)
             ELSE IF ~(include_ok \/ author_priority) \/ ~exclude_ok
             THEN ArxivEntries(rest, cat, cutoff, kw, now,
                               [acc EXCEPT !.seen = @ \cup {nid}])
             ELSE ArxivEntries(rest, cat, cutoff, kw, now,
                    [acc EXCEPT !.seen = @ \cup {nid},
                                !.out  = Append(@, MakeItem(nid, title, summary,
                                                   published_dt, "arXiv", cat,
                                                   e.link, PickPdfLink(e)))])

RECURSIVE ArxivPages(_, _, _, _, _, _, _, _)
\* sources/arxiv.py: the loop  while True  over the pages of one category;
\* pages is the number of pages completed so far and pages * pg.size the
\* offset  start.  The provider answers a request with the entries of the
\* category's listing from that offset on, a page at most.
\* pg = [size, paging, max_pages].
ArxivPages(r, cat, pages, pg, cutoff, kw, now, acc) ==
    LET start   == pages * pg.size
        entries == IF r.status = "ok"
                   THEN SubSeq(r.entries, start + 1, Min(start + pg.size, Len(r.entries)))
                   ELSE <<>>
        a       == ArxivEntries(entries, cat, cutoff, kw, now, [acc EXCEPT !.stop = FALSE])
    IN  IF entries = <<>> THEN acc
        ELSE IF a.stop THEN a
        ELSE IF Len(entries) < pg.size THEN a
        ELSE IF ~pg.paging THEN a
        ELSE IF pages + 1 >= pg.max_pages THEN a
        ELSE ArxivPages(r, cat, pages + 1, pg, cutoff, kw, now, a)

RECURSIVE ArxivCategories(_, _, _, _, _, _, _)
\* sources/arxiv.py: the loop  for cat in categories.  feedparser.parse(url) is
\* not guarded.  The result is [raised, acc].
ArxivCategories(cats, resp, pg, cutoff, kw, now, acc) ==
    IF cats = <<>> THEN [raised |-> "", acc |-> acc]
    ELSE LET cat == Head(cats)
         IN  IF resp[cat].status = "raise"
             THEN [raised |-> "ProviderError", acc |-> acc]
             ELSE ArxivCategories(Tail(cats), resp, pg, cutoff, kw, now,
                    ArxivPages(resp[cat], cat, 0, pg, cutoff, kw, now, acc))

Max(a, b) == IF a >= b THEN a ELSE b

\* sources/arxiv.py lines 77-83: cutoff_dt.  The cutoff is set whenever
\* global_filters has lookback_days (lookback_hours is never passed).
ArxivCutoff(gf, now) ==
    IF "lookback_days" \in gf.has
    THEN [set |-> TRUE, at |-> now - gf.lookback_days * DayTicks]
    ELSE [set |-> FALSE, at |-> 0]

\* sources/arxiv.py lines 66-70: page_size, max_pages, and whether the loop
\* goes past the first page (a cutoff is set or fetch_all is true).
ArxivPaging(config, cutoff) ==
    [size      |-> Max(1, Min(Get(config, "max_results_per_category", 100), 2000)),
     paging    |-> cutoff.set \/ Get(config, "fetch_all", FALSE),
     max_pages |-> Get(config, "max_pages_per_category", 1000)]

\* sources/arxiv.py lines 73-75: the keyword and author lists, read from the
\* global filters only.
ArxivKeywords(gf) ==
    [inc |-> Get(gf, "include_keywords", <<>>),
     exc |-> Get(gf, "exclude_keywords", <<>>),
     pri |-> LET pa == Get(gf, "priority_authors", <<>>)
             IN  [i \in 1..Len(pa) |-> Lower(pa[i])],
     gfhas |-> gf.has, lookback_days |-> gf.lookback_days]

\* sources/arxiv.py fetch(config, global_filters).
ArxivFetch(config, gf, w, now) ==
    LET cutoff == ArxivCutoff(gf, now)
        r == ArxivCategories(
                 Get(config, "targets", <<"cs.AI", "cs.LG", "cs.CL", "cs.CR">>),
                 w.resp, ArxivPaging(config, cutoff), cutoff, ArxivKeywords(gf),
                 now, [out |-> <<>>, seen |-> {}, stop |-> FALSE])
    IN  IF r.raised # "" THEN Raised(r.raised) ELSE Returned(r.acc.out)

\* The adapter fetch_all calls for a source key.
AdapterFetch(key, config, gf, w, now) ==
    CASE key = "arxiv"      -> ArxivFetch(config, gf, w, now)
      [] key = "openreview" -> OpenReviewFetch(config, gf, w, now)
      [] key = "acl"        -> AclFetch(config, gf, w, now)
      [] key = "reddit"     -> RedditFetch(config, gf, w, now)
      [] key = "hn"         -> HnFetch(config, gf, w, now)
      [] key = "hackernoon" -> HackernoonFetch(config, gf, w, now)

\* ----------------------------------------------------------- fetch_all

\* key=lambda x: x.get("published") or dt.datetime.min.  An adapter's timestamp
\* is timezone-aware; datetime.min is naive.
SortKey(x) ==
    IF x.published # NoTime THEN [aware |-> TRUE, t |-> x.published]
    ELSE [aware |-> FALSE, t |-> 0]

\* Ordering a naive and an aware datetime raises TypeError, and sorting a list
\* that holds both kinds of key has to order such a pair.
SortRaises(items) ==
    \E i, j \in 1..Len(items) : SortKey(items[i]).aware # SortKey(items[j]).aware

\* Mutant of SortedPlace: an unstable sort, equal keys come out reversed.
SortedPlaceTiesReversed(items, i) ==
    1 + Cardinality({j \in 1..Len(items) :
            \/ SortKey(items[j]).t > SortKey(items[i]).t
            \/ SortKey(items[j]).t = SortKey(items[i]).t /\ j > i})

\* The place of items[i] after items.sort(key=..., reverse=True) on keys of one
\* kind: behind every item with a larger key and behind the earlier items with
\* an equal key (the sort is stable, also with reverse=True).
SortedPlace(items, i) ==
    1 + Cardinality({j \in 1..Len(items) :
            \/ SortKey(items[j]).t > SortKey(items[i]).t
            \/ SortKey(items[j]).t = SortKey(items[i]).t /\ j < i})

\* items.sort(key=lambda x: x.get("published") or dt.datetime.min, reverse=True)
\* when no comparison raises.
SortNewestFirst(items) ==
    [p \in 1..Len(items) |->
        items[CHOOSE i \in 1..Len(items) : SortedPlace(items, i) = p]]

\* for items in buckets.values(): items.sort(...).  The result is [raised, buckets].
SortBuckets(bm) ==
    IF \E k \in 1..Len(bm) : SortRaises(bm[k].items)
    THEN [raised |-> "TypeError", buckets |-> bm]
    ELSE [raised |-> "",
          buckets |-> [k \in 1..Len(bm) |->
                          [name |-> bm[k].name, items |-> SortNewestFirst(bm[k].items)]]]

RECURSIVE FetchSources(_, _, _, _, _)
\* The six if-statements of fetch_all, from the k-th on.  An exception of an
\* adapter is not caught.  The result is [raised, buckets].
FetchSources(k, scfg, gf, w, bm) ==
    IF k > Len(SourceKeys) THEN [raised |-> "", buckets |-> bm]
    ELSE IF ~SourceEnabled(scfg, SourceKeys[k])
    THEN FetchSources(k + 1, scfg, gf, w, bm)
    ELSE LET r == AdapterFetch(SourceKeys[k], BlockOf(scfg, SourceKeys[k]), gf,
                               w.src[SourceKeys[k]], w.now)
         IN  IF r.raised # "" THEN [raised |-> r.raised, buckets |-> bm]
             ELSE FetchSources(k + 1, scfg, gf, w,
                               Append(bm, [name |-> SourceNames[k], items |-> r.items]))

Reverse(q) == [i \in 1..Len(q) |-> q[Len(q) + 1 - i]]

\* Mutant of FetchAll: the buckets are inserted in the reverse order.
FetchAllReversed(c, w) ==
    LET f == FetchSources(1, c.sources, GlobalFilters(c), w, <<>>)
    IN  IF f.raised # "" THEN f ELSE SortBuckets(Reverse(f.buckets))

\* daily_digest.fetch_all(cfg): [raised, buckets]
FetchAll(c, w) ==
    LET f == FetchSources(1, c.sources, GlobalFilters(c), w, <<>>)
    IN  IF f.raised # "" THEN f ELSE SortBuckets(f.buckets)

\* ----------------------------------------- streamlit_app.fetch_all

RECURSIVE DashSources(_, _, _, _, _, _)
\* The six if-statements of the dashboard's fetch_all; acc = [buckets, results],
\* buckets starting with an empty list under each of the six names.
DashSources(k, scfg, gf, enabled, w, acc) ==
    IF k > Len(SourceKeys) THEN [raised |-> "", acc |-> acc]
    ELSE IF ~enabled[SourceKeys[k]]
    THEN DashSources(k + 1, scfg, gf, enabled, w, acc)
    ELSE LET r == AdapterFetch(SourceKeys[k], BlockOf(scfg, SourceKeys[k]), gf,
                               w.src[SourceKeys[k]], w.now)
         IN  IF r.raised # "" THEN [raised |-> r.raised, acc |-> acc]
             ELSE DashSources(k + 1, scfg, gf, enabled, w,
                    [buckets |-> [acc.buckets EXCEPT ![k].items = r.items],
                     results |-> acc.results \o r.items])

RECURSIVE DashDedupeIdOnly(_, _, _)
\* Mutant of DashDedupe: the key is the id alone.
DashDedupeIdOnly(results, seen, deduped) ==
    IF results = <<>> THEN deduped
    ELSE IF Head(results).id \in seen
    THEN DashDedupeIdOnly(Tail(results), seen, deduped)
    ELSE DashDedupeIdOnly(Tail(results), seen \cup {Head(results).id},
                          Append(deduped, Head(results)))

RECURSIVE DashDedupe(_, _, _)
\* The dashboard's pass over results with key (source, id).
DashDedupe(results, seen, deduped) ==
    IF results = <<>> THEN deduped
    ELSE LET en  == Head(results)
             key == <<en.source, en.id>>
         IN  IF key \in seen THEN DashDedupe(Tail(results), seen, deduped)
             ELSE DashDedupe(Tail(results), seen \cup {key}, Append(deduped, en))

\* streamlit_app.fetch_all(_sources_cfg, _global_filters, _enabled, _nonce):
\* [raised, buckets, deduped]
DashFetchAll(scfg, gf, enabled, w) ==
    LET f == DashSources(1, scfg, gf, enabled, w,
                         [buckets |-> [k \in 1..Len(SourceNames) |->
                                          [name |-> SourceNames[k], items |-> <<>>]],
                          results |-> <<>>])
        d == DashDedupe(f.acc.results, {}, <<>>)
    IN  IF f.raised # ""
        THEN [raised |-> f.raised, buckets |-> f.acc.buckets, deduped |-> <<>>]
        ELSE IF SortRaises(d)
        THEN [raised |-> "TypeError", buckets |-> f.acc.buckets, deduped |-> <<>>]
        ELSE [raised |-> "", buckets |-> f.acc.buckets, deduped |-> SortNewestFirst(d)]

\* The sidebar's checkboxes as first drawn: bool(src_conf.get("enabled", True)).
CheckboxDefaults(scfg) ==
    [key \in Range(SourceKeys) |-> Get(BlockOf(scfg, key), "enabled", TRUE)]

\* ------------------------------------------------------ dedupe_buckets

\* Mutant of DedupeKey: the link is not used when the id is missing.
DedupeKeyIdOnly(name, en) == <<name, Or(en.id, "")>>

\* Mutant of DedupeKey: an item without id and link is keyed by its title.
DedupeKeyTitleLast(name, en) == <<name, Or(Or(en.id, en.link), en.title)>>

\* key = (name, en.get("id") or en.get("link") or "")
DedupeKey(name, en) == <<name, Or(Or(en.id, en.link), "")>>

RECURSIVE DedupeLoopKeyStored(_, _, _, _)
\* Mutant of DedupeLoop: the key's id-or-link is written into the kept item.
DedupeLoopKeyStored(name, items, seen, keep) ==
    IF items = <<>> THEN keep
    ELSE IF DedupeKey(name, Head(items)) \in seen
    THEN DedupeLoopKeyStored(name, Tail(items), seen, keep)
    ELSE DedupeLoopKeyStored(name, Tail(items), seen \cup {DedupeKey(name, Head(items))},
             Append(keep, [Head(items) EXCEPT !.id = DedupeKey(name, Head(items))[2]]))

RECURSIVE DedupeLoop(_, _, _, _)
\* The loop  for en in items  with its  seen  set and  keep  list.
DedupeLoop(name, items, seen, keep) ==
    IF items = <<>> THEN keep
    ELSE LET en  == Head(items)
             key == DedupeKey(name, en)
         IN  IF key \in seen
             THEN DedupeLoop(name, Tail(items), seen, keep)
             ELSE DedupeLoop(name, Tail(items), seen \cup {key}, Append(keep, en))

\* dedupe_buckets(buckets): every key of the dict is reassigned in place, so the
\* keys and their order stay.
DedupeBuckets(bm) ==
    [i \in 1..Len(bm) |-> [name  |-> bm[i].name,
                           items |-> DedupeLoop(bm[i].name, bm[i].items, {}, <<>>)]]

\* ------------------------------------------------ specification: fetch_all

\* Every target name a configuration of the model or an adapter's default
\* names.
AllTargets ==
    {"t1", "t2", "https://hnrss.org/frontpage", "https://hackernoon.com/feed",
     "cs.AI", "cs.LG", "cs.CL", "cs.CR"}

TextAI == <<"A", "I">>

\* A well-formed provider entry.
MkEntry(id, link, pub) ==
    [id |-> id, link |-> link, comments |-> "", pdf |-> NoneVal, title |-> TextAI,
     summary |-> <<>>, pub |-> pub, titled |-> TRUE, ver |-> 0, authors |-> <<>>]

\* A provider that answers every target with the same listing.
Provider(client, status, entries) ==
    [client |-> client,
     resp   |-> [t \in AllTargets |-> [status |-> status, entries |-> entries]]]

\* A config whose top level sets no filter and whose sources block is scfg.
ConfigOf(scfg) ==
    [has |-> {}, lookback_days |-> 0, include_keywords |-> <<>>,
     exclude_keywords |-> <<>>, priority_authors |-> <<>>, sources |-> scfg]

\* The source blocks drawn: with enabled true, enabled false or no enabled key,
\* each naming the one target "t1".
BlockKinds(key) ==
    {[EmptyBlock(key) EXCEPT !.has = {"targets"}, !.targets = <<"t1">>],
     [EmptyBlock(key) EXCEPT !.has = {"targets", "enabled"}, !.targets = <<"t1">>],
     [EmptyBlock(key) EXCEPT !.has = {"targets", "enabled"}, !.targets = <<"t1">>,
                             !.enabled = FALSE]}

AllBlocks == UNION {BlockKinds(key) : key \in Range(SourceKeys)}

\* The sources blocks drawn: up to MaxBlocks blocks of distinct sources, in any
\* order of declaration.
SourcesBlocks ==
    {b \in SeqsUpTo(AllBlocks, MaxBlocks) :
        \A i, j \in 1..Len(b) : i # j => b[i].key # b[j].key}

TwoDated == <<MkEntry("a", "la", 3), MkEntry("b", "lb", 2)>>

\* Providers that all list the same two dated entries; the OpenReview client
\* may fail to be created and the ACL feed may make feedparser raise.
ConfigWorlds ==
    {[now |-> 4,
      src |-> [key \in Range(SourceKeys) |->
                 CASE key = "openreview" -> Provider(client, "ok", TwoDated)
                   [] key = "acl"        -> Provider(TRUE, acl, TwoDated)
                   [] OTHER              -> Provider(TRUE, "ok", TwoDated)]] :
        client \in BOOLEAN, acl \in {"ok", "raise"}}

PosIds == <<"a", "b", "c", "d", "e">>

\* The listings drawn for the sort: up to MaxEntries entries, each dated 1 or 2
\* or undated, with ids by position.
SortListings ==
    {[i \in 1..Len(p) |-> MkEntry(PosIds[i], PosIds[i], p[i])] :
        p \in SeqsUpTo({NoTime, 1, 2}, MaxEntries)}

\* Reddit and Hacker News enabled with one target each, the others disabled.
SortConfig ==
    ConfigOf([k \in 1..Len(SourceKeys) |->
        [EmptyBlock(SourceKeys[k]) EXCEPT
            !.has = {"targets", "enabled"}, !.targets = <<"t1">>,
            !.enabled = SourceKeys[k] \in {"reddit", "hn"}]])

SortWorlds ==
    {[now |-> 4,
      src |-> [key \in Range(SourceKeys) |->
                 IF key = "reddit" THEN Provider(TRUE, "ok", l)
                 ELSE Provider(TRUE, "ok", TwoDated)]] :
        l \in SortListings}

InitFetch ==
    /\ pc = "start"
    /\ \/ cfg \in {ConfigOf(b) : b \in SourcesBlocks} /\ world \in ConfigWorlds
       \/ cfg = SortConfig /\ world \in SortWorlds
    /\ arg = <<>>
    /\ buckets = <<>>
    /\ ret = <<>>
    /\ err = ""

\* buckets = fetch_all(cfg), as main calls it
FetchAllStep ==
    /\ pc = "start"
    /\ \E f \in {FetchAll(cfg, world)} :
           /\ err' = f.raised
           /\ buckets' = IF f.raised = "" THEN f.buckets ELSE <<>>
           /\ pc' = IF f.raised = "" THEN "fetched" ELSE "failed"
    /\ UNCHANGED <<cfg, world, arg, ret>>

\* The checkbox states drawn: as first drawn from the config, or with one box
\* changed by the user.
CheckboxStates(scfg) ==
    {CheckboxDefaults(scfg)} \cup
    {[CheckboxDefaults(scfg) EXCEPT ![key] = ~@] : key \in Range(SourceKeys)}

\* buckets, all_entries = fetch_all(sources_cfg, global_filters, enabled, nonce)
\* of the dashboard
DashFetchStep ==
    /\ pc = "start"
    /\ \E enabled \in CheckboxStates(cfg.sources) :
        \E d \in {DashFetchAll(cfg.sources, GlobalFilters(cfg), enabled, world)} :
            /\ err' = d.raised
            /\ ret' = [enabled |-> enabled, buckets |-> d.buckets, deduped |-> d.deduped]
            /\ pc' = IF d.raised = "" THEN "dash" ELSE "dashfailed"
    /\ UNCHANGED <<cfg, world, arg, buckets>>

NextFetch == FetchAllStep \/ DashFetchStep

SpecFetch == InitFetch /\ [][NextFetch]_vars

\* The config declares a block for key whose enabled key is false.
CfgDisabled(key) ==
    \E i \in 1..Len(cfg.sources) :
        /\ cfg.sources[i].key = key
        /\ "enabled" \in cfg.sources[i].has
        /\ ~cfg.sources[i].enabled

\* The config declares no block for key.
CfgUndeclared(key) == \A i \in 1..Len(cfg.sources) : cfg.sources[i].key # key

\* The config declares a block for key that has no enabled key.
CfgNoEnabledKey(key) ==
    \E i \in 1..Len(cfg.sources) :
        cfg.sources[i].key = key /\ "enabled" \notin cfg.sources[i].has

\* The display name of the source with config key SourceKeys[k] is SourceNames[k].
HasBucket(bm, name) == \E b \in 1..Len(bm) : bm[b].name = name

BucketOf(bm, name) == bm[CHOOSE b \in 1..Len(bm) : bm[b].name = name].items

\* No adapter of an enabled source meets a failure of its own in this world.
NoAdapterFailure ==
    /\ CfgDisabled("openreview") \/ world.src["openreview"].client
    /\ \A key \in Range(SourceKeys), t \in AllTargets :
            world.src[key].resp[t].status = "ok"

\* C2: fetch_all's sort of every bucket completes without error for any mix of
\* dated and undated items, puts the undated items behind every dated one, is
\* newest-first, and keeps the adapter's order among equal or absent
\* timestamps.
C2_SortAnyMix ==
    (pc \in {"fetched", "failed"} /\ NoAdapterFailure) =>
        /\ pc = "fetched"
        /\ \A b \in 1..Len(buckets) :
            LET items == buckets[b].items
            IN  \A i, j \in 1..Len(items) :
                    i < j =>
                        /\ items[i].published = NoTime => items[j].published = NoTime
                        /\ items[j].published # NoTime =>
                                items[i].published >= items[j].published
                        /\ items[i].published = items[j].published =>
                                items[i].oid < items[j].oid

\* C3: when the OpenReview client cannot be created and no other adapter fails,
\* fetch_all returns a bucket map in which OpenReview's bucket is empty and no
\* exception propagates.
C3_FatalAdapterDegrades ==
    (/\ pc \in {"fetched", "failed"}
     /\ ~CfgDisabled("openreview")
     /\ ~world.src["openreview"].client
     /\ \A key \in Range(SourceKeys), t \in AllTargets :
            world.src[key].resp[t].status = "ok") =>
        /\ pc = "fetched"
        /\ err = ""
        /\ HasBucket(buckets, "OpenReview")
        /\ BucketOf(buckets, "OpenReview") = <<>>

FixedPlace(name) == CHOOSE k \in 1..Len(SourceNames) : SourceNames[k] = name

DedupeIds == {NoneVal, "a", "b"}

DedupeLinks == {"", "a"}

\* An item as dedupe_buckets reads it: id and link; oid is its position.
DedupeItemsOf(raw) ==
    [i \in 1..Len(raw) |-> [id |-> raw[i][1], link |-> raw[i][2], oid |-> i]]

DedupeInputs ==
    {<<[name |-> SourceNames[1], items |-> DedupeItemsOf(r1)],
       [name |-> SourceNames[4], items |-> DedupeItemsOf(r2)]>> :
        r1 \in SeqsUpTo(DedupeIds \X DedupeLinks, MaxItems),
        r2 \in SeqsUpTo(DedupeIds \X DedupeLinks, MaxOther)}

InitDedupe ==
    /\ pc = "start"
    /\ arg \in DedupeInputs
    /\ buckets = arg
    /\ cfg = <<>>
    /\ world = <<>>
    /\ ret = <<>>
    /\ err = ""

\* buckets = dedupe_buckets(buckets)
DedupeStep ==
    /\ pc = "start"
    /\ buckets' = DedupeBuckets(buckets)
    /\ pc' = "deduped"
    /\ UNCHANGED <<cfg, world, arg, ret, err>>

NextDedupe == DedupeStep

SpecDedupe == InitDedupe /\ [][NextDedupe]_vars

\* The key the claim names: the id, or the link when the id is absent or empty.
ClaimKey(en) == IF en.id # NoneVal /\ en.id # "" THEN en.id ELSE en.link

\* The positions of the first item of every key in a bucket.
FirstOfKey(items) ==
    {i \in 1..Len(items) :
        \A j \in 1..(i - 1) : ClaimKey(items[j]) # ClaimKey(items[i])}

\* s is strictly increasing in oid.
IncreasingOid(s) == \A i, j \in 1..Len(s) : i < j => s[i].oid < s[j].oid

\* C1: after dedupe_buckets, every bucket holds no two items with the same key
\* (id, or link when the id is absent or empty); of the items of the input
\* bucket that share a key exactly the first is kept; the kept items are in
\* their input order; and a bucket's result depends on that bucket alone.
C1_DedupeFirstSeen ==
    pc = "deduped" =>
        /\ Len(buckets) = Len(arg)
        /\ \A b \in 1..Len(arg) :
            LET inp  == arg[b].items
                res  == buckets[b].items
            IN  /\ buckets[b].name = arg[b].name
                /\ \A i, j \in 1..Len(res) : i # j => ClaimKey(res[i]) # ClaimKey(res[j])
                /\ {res[i] : i \in 1..Len(res)} = {inp[i] : i \in FirstOfKey(inp)}
                /\ IncreasingOid(res)

\* C1 witness: a bucket of three items, two of them sharing a key that the other
\* bucket holds too, has been deduplicated to two items.
C1_Witness ==
    /\ pc = "deduped"
    /\ Len(arg[1].items) = 3
    /\ Len(buckets[1].items) = 2
    /\ Len(buckets[2].items) = 1
    /\ \E i \in 1..3 : ClaimKey(arg[1].items[i]) = ClaimKey(arg[2].items[1])

\* ------------------------------------------------- specification: adapters

\* The longest listing drawn for one target of an adapter.
MaxNotes == 2

\* A record without a title: an OpenReview note whose content has no title, a
\* feed entry whose title e.get("title", "") reads as empty.
Untitled(e) == [e EXCEPT !.titled = FALSE, !.title = <<>>]

\* The kinds of entry a provider of the source lists, by id: well-formed and
\* dated, with a date that does not parse (an OpenReview note carries a number
\* or nothing, so there: without a date), and without a title.
EntryKinds(key, id) ==
    {MkEntry(id, id, 3),
     MkEntry(id, id, IF key = "openreview" THEN NoTime ELSE BadTime),
     Untitled(MkEntry(id, id, 3))}

WellFormed(e) == e.titled /\ e.pub # BadTime

\* The listings of one target: up to MaxNotes entries whose ids are the target
\* name followed by the position.
TargetIds(t) ==
    IF t = "t1" THEN <<"t1.1", "t1.2", "t1.3", "t1.4">>
    ELSE <<"t2.1", "t2.2", "t2.3", "t2.4">>

TargetListings(key, t) ==
    UNION {{l \in [1..n -> UNION {EntryKinds(key, TargetIds(t)[i]) : i \in 1..n}] :
                \A i \in 1..n : l[i] \in EntryKinds(key, TargetIds(t)[i])} :
           n \in 0..MaxNotes}

\* The provider of one source: an answer per target, "ok" with a listing,
\* "fail" or "raise".
AdapterProviders(key) ==
    {[client |-> TRUE,
      resp   |-> [t \in AllTargets |->
                    IF t = "t1" THEN [status |-> s1, entries |-> l1]
                    ELSE IF t = "t2" THEN [status |-> s2, entries |-> l2]
                    ELSE [status |-> "ok", entries |-> <<>>]]] :
        s1 \in {"ok", "fail", "raise"}, s2 \in {"ok", "fail", "raise"},
        l1 \in TargetListings(key, "t1"), l2 \in TargetListings(key, "t2")}

\* The config of one adapter: its block names the targets t1 and t2 and the
\* top level sets no filter.
AdapterConfig(key, targets) ==
    ConfigOf(<<[EmptyBlock(key) EXCEPT !.has = {"targets"}, !.targets = targets]>>)

InitAdapters ==
    /\ pc = "start"
    /\ \E key \in Range(SourceKeys) :
          /\ arg = [key |-> key]
          /\ cfg = AdapterConfig(key, <<"t1", "t2">>)
          /\ \E p \in AdapterProviders(key) :
                world = [now |-> 4, src |-> [k \in Range(SourceKeys) |-> p]]
    /\ buckets = <<>>
    /\ ret = <<>>
    /\ err = ""

\* arxiv.fetch(scfg.get("arxiv", {}), gf)
ArxivStep ==
    /\ pc = "start"
    /\ arg.key = "arxiv"
    /\ \E r \in {ArxivFetch(BlockOf(cfg.sources, "arxiv"), GlobalFilters(cfg),
                           world.src["arxiv"], world.now)} :
          /\ err' = r.raised
          /\ ret' = r.items
          /\ pc' = IF r.raised = "" THEN "returned" ELSE "raised"
    /\ UNCHANGED <<cfg, world, arg, buckets>>

\* openreview.fetch(scfg.get("openreview", {}), gf)
OpenReviewStep ==
    /\ pc = "start"
    /\ arg.key = "openreview"
    /\ \E r \in {OpenReviewFetch(BlockOf(cfg.sources, "openreview"), GlobalFilters(cfg),
                                world.src["openreview"], world.now)} :
          /\ err' = r.raised
          /\ ret' = r.items
          /\ pc' = IF r.raised = "" THEN "returned" ELSE "raised"
    /\ UNCHANGED <<cfg, world, arg, buckets>>

\* acl.fetch(scfg.get("acl", {}), gf)
AclStep ==
    /\ pc = "start"
    /\ arg.key = "acl"
    /\ \E r \in {AclFetch(BlockOf(cfg.sources, "acl"), GlobalFilters(cfg),
                         world.src["acl"], world.now)} :
          /\ err' = r.raised
          /\ ret' = r.items
          /\ pc' = IF r.raised = "" THEN "returned" ELSE "raised"
    /\ UNCHANGED <<cfg, world, arg, buckets>>

\* reddit.fetch(scfg.get("reddit", {}), gf)
RedditStep ==
    /\ pc = "start"
    /\ arg.key = "reddit"
    /\ \E r \in {RedditFetch(BlockOf(cfg.sources, "reddit"), GlobalFilters(cfg),
                            world.src["reddit"], world.now)} :
          /\ err' = r.raised
          /\ ret' = r.items
          /\ pc' = IF r.raised = "" THEN "returned" ELSE "raised"
    /\ UNCHANGED <<cfg, world, arg, buckets>>

\* hn.fetch(scfg.get("hn", {}), gf)
HnStep ==
    /\ pc = "start"
    /\ arg.key = "hn"
    /\ \E r \in {HnFetch(BlockOf(cfg.sources, "hn"), GlobalFilters(cfg),
                        world.src["hn"], world.now)} :
          /\ err' = r.raised
          /\ ret' = r.items
          /\ pc' = IF r.raised = "" THEN "returned" ELSE "raised"
    /\ UNCHANGED <<cfg, world, arg, buckets>>

\* hackernoon.fetch(scfg.get("hackernoon", {}), gf)
HackernoonStep ==
    /\ pc = "start"
    /\ arg.key = "hackernoon"
    /\ \E r \in {HackernoonFetch(BlockOf(cfg.sources, "hackernoon"), GlobalFilters(cfg),
                                world.src["hackernoon"], world.now)} :
          /\ err' = r.raised
          /\ ret' = r.items
          /\ pc' = IF r.raised = "" THEN "returned" ELSE "raised"
    /\ UNCHANGED <<cfg, world, arg, buckets>>

NextAdapters ==
    \/ ArxivStep
    \/ OpenReviewStep
    \/ AclStep
    \/ RedditStep
    \/ HnStep
    \/ HackernoonStep

SpecAdapters == InitAdapters /\ [][NextAdapters]_vars

\* The provider answers of the adapter that ran, and its two targets.
AdapterResp == world.src[arg.key].resp

AdapterTargets == {"t1", "t2"}

\* Every entry the provider lists for the targets.
ListedEntries ==
    UNION {Range(AdapterResp[t].entries) : t \in AdapterTargets}

\* C4: in every adapter a single malformed entry (a record without a title, an
\* entry whose date does not parse) does not abort the adapter: when every
\* provider call succeeds and the listings hold a malformed entry, the adapter
\* does not raise and returns every well-formed entry of its targets (the
\* config sets no keyword filter and every dated entry is recent, so each
\* passes the filters).
C4_MalformedEntrySkipped ==
    (/\ pc \in {"returned", "raised"}
     /\ \A t \in AdapterTargets : AdapterResp[t].status = "ok"
     /\ \E e \in ListedEntries : ~WellFormed(e))
    => /\ pc = "returned"
       /\ \A e \in ListedEntries :
            WellFormed(e) => \E i \in 1..Len(ret) : ret[i].id = e.id

\* C5: in every adapter a provider-call failure for one target skips only that
\* target: when every listed entry is well-formed and the call for a target
\* fails, the adapter does not raise and returns what it returns for the
\* remaining targets alone, in the same order.
C5_FailedTargetSkipped ==
    (/\ pc \in {"returned", "raised"}
     /\ \A e \in ListedEntries : WellFormed(e)
     /\ \E t \in AdapterTargets : AdapterResp[t].status # "ok")
    => /\ pc = "returned"
       /\ LET remaining == SelectSeq(<<"t1", "t2">>,
                                     LAMBDA t : AdapterResp[t].status = "ok")
              alone     == AdapterConfig(arg.key, remaining)
          IN  Returned(ret) =
                AdapterFetch(arg.key, BlockOf(alone.sources, arg.key),
                             GlobalFilters(alone), world.src[arg.key], world.now)

\* ------------------------------------------------------------ rendering
\* max_per_source is an Optional[int]: <<>> is None and <<n>> the integer n.
\* A rendered document is the sequence of the strings the code joins with
\* "\n", each a record [kind, prefix, name, count, link, text, summary] of the
\* parts formatted into it.

NoLimit == <<>>

Unlimited(limit) == limit = NoLimit \/ limit[1] <= 0

\* _iter_limited(items, limit)
IterLimited(items, limit) ==
    IF Unlimited(limit) THEN items ELSE Take(items, limit[1])

Line(kind, prefix, name, count, link, text, summary) ==
    [kind |-> kind, prefix |-> prefix, name |-> name, count |-> count,
     link |-> link, text |-> text, summary |-> summary]

\* title.replace("&", "&amp;").replace("<", "&lt;").replace(">", "&gt;")
EscapeHtml(title) ==
    [i \in 1..Len(title) |->
        CASE title[i] = "&" -> "&amp;"
          [] title[i] = "<" -> "&lt;"
          [] title[i] = ">" -> "&gt;"
          [] OTHER          -> title[i]]

RECURSIVE Concat(_)
Concat(seqs) == IF seqs = <<>> THEN <<>> ELSE Head(seqs) \o Concat(Tail(seqs))

\* Mutant of HtmlSection: an empty bucket is not skipped.
HtmlSectionEmptyShown(name, items, max_per_source) ==
    <<Line("h3", "", name, ToString(Len(IterLimited(items, max_per_source))),
           "", <<>>, <<>>),
      Line("ul", "", "", "", "", <<>>, <<>>)>>
    \o [i \in 1..Len(IterLimited(items, max_per_source)) |->
           Line("li", "", "", "",
                Or(Or(IterLimited(items, max_per_source)[i].pdf,
                      IterLimited(items, max_per_source)[i].link), "#"),
                EscapeHtml(Strip(IterLimited(items, max_per_source)[i].title)),
                Truncate(Strip(IterLimited(items, max_per_source)[i].summary),
                         RenderBudget))]
    \o <<Line("/ul", "", "", "", "", <<>>, <<>>)>>

\* The parts render_html appends for one bucket.
HtmlSection(name, items, max_per_source) ==
    IF items = <<>> THEN <<>>
    ELSE LET shown == IF Unlimited(max_per_source) THEN Len(items)
                      ELSE Min(Len(items), max_per_source[1])
             lim   == IterLimited(items, max_per_source)
         IN  <<Line("h3", "", name, ToString(shown), "", <<>>, <<>>),
               Line("ul", "", "", "", "", <<>>, <<>>)>>
             \o [i \in 1..Len(lim) |->
                    Line("li", "", "", "",
                         Or(Or(lim[i].pdf, lim[i].link), "#"),
                         EscapeHtml(Strip(lim[i].title)),
                         Truncate(Strip(lim[i].summary), RenderBudget))]
             \o <<Line("/ul", "", "", "", "", <<>>, <<>>)>>

\* render_html(buckets, max_per_source)
RenderHtml(bm, max_per_source) ==
    <<Line("h2", "", "", "", "", <<>>, <<>>)>>
    \o Concat([k \in 1..Len(bm) |-> HtmlSection(bm[k].name, bm[k].items, max_per_source)])

\* The lines render_plaintext appends for one item.
PlainItem(it) ==
    LET link    == Or(Or(it.pdf, it.link), "")
        summary == Truncate(Strip(it.summary), RenderBudget)
    IN  <<Line("title", "- ", "", "", "", Strip(it.title), <<>>)>>
        \o (IF link # "" THEN <<Line("link", "  ", "", "", link, <<>>, <<>>)>> ELSE <<>>)
        \o (IF summary # <<>> THEN <<Line("summary", "  ", "", "", "", <<>>, summary)>>
            ELSE <<>>)

\* The lines render_plaintext appends for one bucket.
PlainSection(name, items, max_per_source) ==
    IF items = <<>> THEN <<>>
    ELSE LET cap_desc == IF Unlimited(max_per_source) THEN "all"
                         ELSE ToString(max_per_source[1])
             lim      == IterLimited(items, max_per_source)
         IN  <<Line("heading", "", name, cap_desc, "", <<>>, <<>>)>>
             \o Concat([i \in 1..Len(lim) |-> PlainItem(lim[i])])
             \o <<Line("blank", "", "", "", "", <<>>, <<>>)>>

RECURSIVE DropBlankEnd(_)
DropBlankEnd(lines) ==
    IF lines # <<>> /\ lines[Len(lines)].kind = "blank"
    THEN DropBlankEnd(SubSeq(lines, 1, Len(lines) - 1))
    ELSE lines

\* "\n".join(lines).strip(): the blank lines at the end go, and so does the
\* space that ends a last line "- " of an item without a title.
StripLines(lines) ==
    LET l == DropBlankEnd(lines)
    IN  IF l # <<>> /\ l[Len(l)].kind = "title" /\ l[Len(l)].text = <<>>
        THEN [l EXCEPT ![Len(l)].prefix = "-"]
        ELSE l

\* render_plaintext(buckets, max_per_source)
RenderPlaintext(bm, max_per_source) ==
    StripLines(
        <<Line("header", "", "", "", "", <<>>, <<>>),
          Line("blank", "", "", "", "", <<>>, <<>>)>>
        \o Concat([k \in 1..Len(bm) |->
                      PlainSection(bm[k].name, bm[k].items, max_per_source)]))

\* ------------------------------------------------ specification: rendering

\* The most items drawn for a bucket.
MaxShown == 3

\* The summaries drawn: the texts over a letter and the space of up to two
\* characters more than the budget of the renderers.
SummaryTexts == SeqsUpTo({"a", " "}, RenderBudget + 2)

RenderTitles == <<"1", "2", "3", "4", "5">>

\* The i-th item of a drawn bucket: its title names its position.
RenderItem(source, i, pdf, link, summary) ==
    [MakeItem(RenderTitles[i], <<source, "&", RenderTitles[i], " ">>, summary,
              NoTime, source, "", link, pdf) EXCEPT !.oid = i]

\* The bucket maps drawn: an arXiv bucket of up to MaxShown items whose first
\* item has a drawn summary and drawn links, and a Reddit bucket of up to two
\* items.
RenderBuckets ==
    {<<[name  |-> "arXiv",
        items |-> [i \in 1..n |->
                     IF i = 1 THEN RenderItem("arXiv", 1, l[1], l[2], summary)
                     ELSE RenderItem("arXiv", i, "", "l", <<"a", " ", "a">>)]],
       [name  |-> "Reddit",
        items |-> [i \in 1..m |-> RenderItem("Reddit", i, "", "l", <<>>)]]>> :
        n \in 0..MaxShown, m \in 0..2, summary \in SummaryTexts,
        l \in {<<"", "">>, <<"", "l">>, <<"p", "l">>}}

\* The caps drawn: None, 0 and the positive caps up to one more than MaxShown.
RenderLimits == {NoLimit} \cup {<<n>> : n \in 0..(MaxShown + 1)}

InitRender ==
    /\ pc = "start"
    /\ \E bm \in RenderBuckets, limit \in RenderLimits :
          arg = [buckets |-> bm, max_per_source |-> limit]
    /\ cfg = <<>>
    /\ world = <<>>
    /\ buckets = <<>>
    /\ ret = <<>>
    /\ err = ""

\* html = render_html(buckets, max_per_source=max_per_source)
RenderHtmlStep ==
    /\ pc = "start"
    /\ ret' = RenderHtml(arg.buckets, arg.max_per_source)
    /\ pc' = "html"
    /\ UNCHANGED <<cfg, world, arg, buckets, err>>

\* plain = render_plaintext(buckets, max_per_source=max_per_source)
RenderPlaintextStep ==
    /\ pc = "start"
    /\ ret' = RenderPlaintext(arg.buckets, arg.max_per_source)
    /\ pc' = "plain"
    /\ UNCHANGED <<cfg, world, arg, buckets, err>>

NextRender == RenderHtmlStep \/ RenderPlaintextStep

SpecRender == InitRender /\ [][NextRender]_vars

\* The positions of the headings of a rendered document, and the j-th of them.
HeadingPositions(doc) == {i \in 1..Len(doc) : doc[i].kind \in {"h3", "heading"}}

HeadingPosition(doc, j) ==
    CHOOSE i \in HeadingPositions(doc) :
        Cardinality({x \in HeadingPositions(doc) : x < i}) = j - 1

\* The positions of the item entries that follow the j-th heading, in order.
EntryPositions(doc, j) ==
    LET first == HeadingPosition(doc, j) + 1
        last  == IF j < Cardinality(HeadingPositions(doc))
                 THEN HeadingPosition(doc, j + 1) - 1 ELSE Len(doc)
    IN  SelectSeq([i \in 1..(last - first + 1) |-> first + i - 1],
                  LAMBDA i : doc[i].kind \in {"li", "title"})

\* The summary emitted with the item entry at position i, <<>> when none is.
EntrySummary(doc, i) ==
    IF doc[i].kind = "li" THEN doc[i].summary
    ELSE IF i + 1 <= Len(doc) /\ doc[i + 1].kind = "summary" THEN doc[i + 1].summary
    ELSE IF i + 2 <= Len(doc) /\ doc[i + 1].kind = "link" /\ doc[i + 2].kind = "summary"
    THEN doc[i + 2].summary
    ELSE <<>>

NonEmptyBuckets(bm) == SelectSeq(bm, LAMBDA b : b.items # <<>>)

\* The number of items of a bucket that the cap lets through.
ShownCount(items, limit) ==
    IF limit = NoLimit \/ limit[1] <= 0 THEN Len(items) ELSE Min(Len(items), limit[1])

\* The title of an item as the document of the state writes it.
TitleWritten(it) ==
    IF pc = "html" THEN EscapeHtml(Strip(it.title)) ELSE Strip(it.title)

\* C8: for every bucket map and cap, both render_html and render_plaintext emit
\* for each non-empty bucket, and for no other, a heading whose count is the
\* number of items shown (min(len(items), cap) for a positive cap, len(items)
\* for a cap of zero or None), followed by exactly that many item entries, the
\* first items of the bucket in bucket order.
C8_HeadingCountsShown ==
    pc \in {"html", "plain"} =>
        LET ne == NonEmptyBuckets(arg.buckets)
        IN  /\ Cardinality(HeadingPositions(ret)) = Len(ne)
            /\ \A j \in 1..Len(ne) :
                 LET shown   == ShownCount(ne[j].items, arg.max_per_source)
                     heading == ret[HeadingPosition(ret, j)]
                     entries == EntryPositions(ret, j)
                 IN  /\ heading.name = ne[j].name
                     /\ heading.count = ToString(shown)
                     /\ Len(entries) = shown
                     /\ \A i \in 1..shown :
                          ret[entries[i]].text = TitleWritten(ne[j].items[i])

\* A cut of a text after k characters does not fall inside a word.
NotMidWord(text, k) ==
    k = 0 \/ k >= Len(text) \/ IsSpace(text[k]) \/ IsSpace(text[k + 1])

\* C9: for every summary longer than the character budget, the summary that
\* render_html and render_plaintext emit is a prefix of the original of at most
\* budget characters followed by the ellipsis, and the prefix does not end in
\* the middle of a word, also when the first budget characters hold no space.
C9_TruncationKeepsWords ==
    pc \in {"html", "plain"} =>
        LET ne == NonEmptyBuckets(arg.buckets)
        IN  \A j \in 1..Len(ne) :
              \A i \in 1..Len(EntryPositions(ret, j)) :
                 LET original == Strip(ne[j].items[i].summary)
                     emitted  == EntrySummary(ret, EntryPositions(ret, j)[i])
                     k        == Len(emitted) - 1
                 IN  Len(original) > RenderBudget =>
                        /\ emitted # <<>>
                        /\ emitted[Len(emitted)] = Ellipsis
                        /\ k <= RenderBudget
                        /\ SubSeq(emitted, 1, k) = SubSeq(original, 1, k)
                        /\ NotMidWord(original, k)

\* ------------------------------------------------ specification: is_recent

\* The latest reading of the clock drawn.
MaxClock == 6

\* The widest lookback window drawn, in days.
MaxLookback == 3

InitRecent ==
    /\ pc = "start"
    /\ \E timestamp \in {NoTime} \cup 1..MaxClock,
          lookback_days \in -1..MaxLookback,
          now \in 1..MaxClock :
          arg = [timestamp |-> timestamp, lookback_days |-> lookback_days, now |-> now]
    /\ cfg = <<>>
    /\ world = <<>>
    /\ buckets = <<>>
    /\ ret = FALSE
    /\ err = ""

\* is_recent(published_dt, lookback_days), as an adapter calls it
IsRecentStep ==
    /\ pc = "start"
    /\ ret' = IsRecent(arg.timestamp, arg.lookback_days, arg.now)
    /\ pc' = "tested"
    /\ UNCHANGED <<cfg, world, arg, buckets, err>>

NextRecent == IsRecentStep

SpecRecent == InitRecent /\ [][NextRecent]_vars

\* C10: is_recent(timestamp, lookback_days) returns true whenever
\* lookback_days <= 0, returns true whenever the timestamp is absent, and
\* otherwise returns true exactly when now - timestamp is at most
\* lookback_days days; it returns a boolean on every input.
C10_IsRecentContract ==
    pc = "tested" =>
        /\ ret \in BOOLEAN
        /\ arg.lookback_days <= 0 => ret
        /\ arg.timestamp = NoTime => ret
        /\ (arg.lookback_days > 0 /\ arg.timestamp # NoTime) =>
              (ret <=> arg.now - arg.timestamp <= arg.lookback_days * DayTicks)

\* A dated item older than a day is tested against a window of zero days and
\* kept.
C10_Witness ==
    /\ pc = "tested"
    /\ arg.lookback_days = 0
    /\ arg.timestamp # NoTime
    /\ arg.now - arg.timestamp > DayTicks
    /\ ret

\* --------------------------------------------- specification: keyword match

\* The longest text and the longest keyword drawn.
MaxTextLen == 3

MaxKeywordLen == 2

\* An argument that may be absent is <<>> when it is None and <<v>> when it is
\* the value v.  An absent text is matched as the empty string.
TextOrEmpty(text) == IF text = <<>> THEN <<>> ELSE text[1]

MatchTexts == {<<>>} \cup {<<t>> : t \in SeqsUpTo({"a", "A", "b"}, MaxTextLen)}

MatchKeywords == SeqsUpTo({"A", "b"}, MaxKeywordLen)

\* The keyword lists drawn: no keyword, one, or two.
MatchKeywordLists ==
    {<<>>} \cup {<<k>> : k \in MatchKeywords}
           \cup {<<k1, k2>> : k1 \in MatchKeywords, k2 \in MatchKeywords}

InitMatch ==
    /\ pc = "start"
    /\ \E text \in MatchTexts, keywords \in MatchKeywordLists :
          arg = [text |-> text, keywords |-> keywords]
    /\ cfg = <<>>
    /\ world = <<>>
    /\ buckets = <<>>
    /\ ret = FALSE
    /\ err = ""

\* any_keyword_match(hay, include_keywords), as an adapter calls it
AnyKeywordMatchStep ==
    /\ pc = "start"
    /\ ret' = AnyKeywordMatch(TextOrEmpty(arg.text), arg.keywords)
    /\ pc' = "any"
    /\ UNCHANGED <<cfg, world, arg, buckets, err>>

\* none_keyword_match(hay, exclude_keywords), as an adapter calls it
NoneKeywordMatchStep ==
    /\ pc = "start"
    /\ ret' = NoneKeywordMatch(TextOrEmpty(arg.text), arg.keywords)
    /\ pc' = "none"
    /\ UNCHANGED <<cfg, world, arg, buckets, err>>

NextMatch == AnyKeywordMatchStep \/ NoneKeywordMatchStep

SpecMatch == InitMatch /\ [][NextMatch]_vars

\* Two characters that differ at most in letter case.
SameLetter(c, d) == c = d \/ (c = "a" /\ d = "A") \/ (c = "A" /\ d = "a")

\* The keyword occurs in the text at some offset, letter case aside.
OccursIn(keyword, text) ==
    \E off \in 0..(Len(text) - Len(keyword)) :
        \A j \in 1..Len(keyword) : SameLetter(text[off + j], keyword[j])

\* The text the matcher of the state was given, "" for an absent one.
MatchedText == IF arg.text = <<>> THEN <<>> ELSE arg.text[1]

\* C11: any_keyword_match(text, keywords) is true exactly when keywords is
\* empty or some keyword occurs in text as a case-insensitive substring;
\* none_keyword_match(text, keywords) is true exactly when no keyword so
\* occurs (true for empty keywords); an absent text counts as the empty
\* string, and both return a boolean on every input.
C11_KeywordMatchContract ==
    /\ pc = "any" =>
          /\ ret \in BOOLEAN
          /\ ret <=> (\/ arg.keywords = <<>>
                      \/ \E i \in 1..Len(arg.keywords) :
                            OccursIn(arg.keywords[i], MatchedText))
    /\ pc = "none" =>
          /\ ret \in BOOLEAN
          /\ ret <=> (\A i \in 1..Len(arg.keywords) :
                        ~OccursIn(arg.keywords[i], MatchedText))

\* A keyword in capitals is found in a text in small letters.
C11_Witness ==
    /\ pc = "any"
    /\ arg.text = <<(<<"b", "a">>)>>
    /\ arg.keywords = <<(<<"b", "A">>)>>
    /\ ret

\* ----------------------------------------- specification: keyword override

KeywordAI == <<"a", "i">>

KeywordB == <<"b">>

\* The optional keyword lists drawn for the top level of the config and for
\* the source's block: <<>> is an absent key, <<l>> the list l.
GlobalKeywordChoices == {<<>>, <<(<<KeywordAI>>)>>, <<(<<KeywordB>>)>>}

BlockKeywordChoices == {<<>>, <<(<<>>)>>, <<(<<KeywordAI>>)>>}

\* A dict's has-set and value for an optional key.
HasIf(opt, k) == IF opt = <<>> THEN {} ELSE {k}

ValueOr(opt, default) == IF opt = <<>> THEN default ELSE opt[1]

\* The config of one adapter with the drawn keyword lists: the source's block
\* names the target t1.
KeywordConfig(key, ginc, gexc, binc, bexc) ==
    [has |-> HasIf(ginc, "include_keywords") \cup HasIf(gexc, "exclude_keywords"),
     lookback_days |-> 0,
     include_keywords |-> ValueOr(ginc, <<>>),
     exclude_keywords |-> ValueOr(gexc, <<>>),
     priority_authors |-> <<>>,
     sources |-> <<[EmptyBlock(key) EXCEPT
                      !.has = {"targets"} \cup HasIf(binc, "include_keywords")
                                          \cup HasIf(bexc, "exclude_keywords"),
                      !.targets = <<"t1">>,
                      !.include_keywords = ValueOr(binc, <<>>),
                      !.exclude_keywords = ValueOr(bexc, <<>>)]>>]

\* The provider lists, for every target, one recent entry titled "AI" and one
\* titled "B".
KeywordListing ==
    <<MkEntry("t1.1", "t1.1", 3), [MkEntry("t1.2", "t1.2", 3) EXCEPT !.title = <<"B">>]>>

InitKeywords ==
    /\ pc = "start"
    /\ \E key \in Range(SourceKeys),
          ginc \in GlobalKeywordChoices, gexc \in GlobalKeywordChoices,
          binc \in BlockKeywordChoices, bexc \in BlockKeywordChoices :
          /\ arg = [key |-> key]
          /\ cfg = KeywordConfig(key, ginc, gexc, binc, bexc)
    /\ world = [now |-> 4,
                src |-> [k \in Range(SourceKeys) |-> Provider(TRUE, "ok", KeywordListing)]]
    /\ buckets = <<>>
    /\ ret = <<>>
    /\ err = ""

SpecKeywords == InitKeywords /\ [][NextAdapters]_vars

\* The keyword list in effect under the override-or-inherit policy: the
\* block's own list when the block has the key, the global list otherwise.
InEffect(k) ==
    LET block == BlockOf(cfg.sources, arg.key)
    IN  IF k \in block.has THEN block[k]
        ELSE IF k \in cfg.has THEN cfg[k] ELSE <<>>

\* The entry passes the keyword lists in effect.
PassesInEffect(e) ==
    LET hay == Hay(Strip(e.title), Strip(e.summary))
    IN  /\ InEffect("include_keywords") = <<>>
           \/ AnyKeywordMatch(hay, InEffect("include_keywords"))
        /\ NoneKeywordMatch(hay, InEffect("exclude_keywords"))

\* C12: in every adapter the include and exclude lists in effect are the
\* adapter's own list when its config has the key, also when that list is
\* empty, and the global list when the key is absent: the adapter returns
\* exactly the listed entries that pass the lists in effect.
C12_OverrideOrInherit ==
    pc \in {"returned", "raised"} =>
        /\ pc = "returned"
        /\ {ret[i].id : i \in 1..Len(ret)} =
              {e.id : e \in {x \in Range(KeywordListing) : PassesInEffect(x)}}

\* ----------------------------------------- specification: priority authors

\* The longest arXiv listing drawn.
MaxListed == 2

AuthorA == <<"A">>

\* The entries an arXiv listing may hold at a position: titled "AI", "B" or
\* "C", by nobody, by the author "a", by the author "A" or by "b", recent
\* (time 3) or older than the window (time 1).
PriorityEntries(i) ==
    {[MkEntry(PosIds[i], PosIds[i], pub) EXCEPT !.title = title, !.authors = authors] :
        title \in {TextAI, <<"B">>, <<"C">>},
        authors \in {<<>>, <<(<<"a">>)>>, <<AuthorA>>, <<(<<"b">>)>>},
        pub \in {1, 3}}

\* The listings drawn: the provider sorts by submission date, newest first.
PriorityListings ==
    UNION {{l \in [1..n -> UNION {PriorityEntries(i) : i \in 1..n}] :
              /\ \A i \in 1..n : l[i] \in PriorityEntries(i)
              /\ \A i \in 1..(n - 1) : l[i].pub >= l[i + 1].pub} :
           n \in 0..MaxListed}

\* The configs drawn: a window of one day; the include list ["ai"], the
\* exclude list ["b"] and the priority author "A", each set or not; the arXiv
\* block names the category t1.
PriorityConfigs ==
    {[has |-> {"lookback_days"} \cup HasIf(inc, "include_keywords")
                                \cup HasIf(exc, "exclude_keywords")
                                \cup HasIf(pri, "priority_authors"),
      lookback_days |-> 1,
      include_keywords |-> ValueOr(inc, <<>>),
      exclude_keywords |-> ValueOr(exc, <<>>),
      priority_authors |-> ValueOr(pri, <<>>),
      sources |-> <<[EmptyBlock("arxiv") EXCEPT !.has = {"targets"},
                                                !.targets = <<"t1">>]>>] :
        inc \in {<<>>, <<(<<KeywordAI>>)>>},
        exc \in {<<>>, <<(<<KeywordB>>)>>},
        pri \in {<<>>, <<(<<AuthorA>>)>>}}

InitPriority ==
    /\ pc = "start"
    /\ arg = [key |-> "arxiv"]
    /\ cfg \in PriorityConfigs
    /\ \E l \in PriorityListings :
          world = [now |-> 4,
                   src |-> [k \in Range(SourceKeys) |-> Provider(TRUE, "ok", l)]]
    /\ buckets = <<>>
    /\ ret = <<>>
    /\ err = ""

NextPriority == ArxivStep

SpecPriority == InitPriority /\ [][NextPriority]_vars

\* The listing of the category the arXiv adapter was given.
ArxivListed == world.src["arxiv"].resp["t1"].entries

IsReturned(e) == \E i \in 1..Len(ret) : ret[i].id = e.id

\* An author of the entry is a priority author, letter case aside.
ByPriorityAuthor(e) ==
    \E i \in 1..Len(e.authors), j \in 1..Len(cfg.priority_authors) :
        /\ Len(e.authors[i]) = Len(cfg.priority_authors[j])
        /\ \A k \in 1..Len(e.authors[i]) :
              SameLetter(e.authors[i][k], cfg.priority_authors[j][k])

InWindow(e) == world.now - e.pub <= cfg.lookback_days * DayTicks

\* C13: in the arXiv adapter an entry with an author who is a priority author,
\* letter case aside, is returned whether or not an include keyword occurs in
\* it, provided it is within the lookback window and hits no exclude keyword;
\* an entry without a priority author is returned only if the include list is
\* empty or an include keyword matches.
C13_PriorityAuthorBypass ==
    pc \in {"returned", "raised"} =>
        /\ pc = "returned"
        /\ \A e \in Range(ArxivListed) :
             LET hay == Hay(Strip(e.title), Strip(e.summary))
             IN  /\ (/\ ByPriorityAuthor(e)
                     /\ InWindow(e)
                     /\ NoneKeywordMatch(hay, cfg.exclude_keywords))
                    => IsReturned(e)
                 /\ (~ByPriorityAuthor(e) /\ IsReturned(e))
                    => \/ cfg.include_keywords = <<>>
                       \/ AnyKeywordMatch(hay, cfg.include_keywords)

\* An entry titled "C" by the author "a" is returned under the include list
\* ["ai"] and the priority author "A".
C13_Witness ==
    /\ pc = "returned"
    /\ cfg.include_keywords = <<KeywordAI>>
    /\ cfg.priority_authors = <<AuthorA>>
    /\ \E e \in Range(ArxivListed) :
          /\ e.title = <<"C">>
          /\ e.authors = <<(<<"a">>)>>
          /\ IsReturned(e)

\* ----------------------------------------------------------- _parse_limit
\* env_val is an Optional[str]: <<>> is None and <<s>> the text s.  cfg_val is
\* any YAML value: [type |-> "none"], [type |-> "str", str |-> s],
\* [type |-> "int", int |-> n] or [type |-> "float"].  The result is an
\* Optional[int] as max_per_source is.

IsDigit(c) == c \in {"0", "1", "2", "3", "4", "5", "6", "7", "8", "9"}

DigitValue(c) ==
    CASE c = "0" -> 0 [] c = "1" -> 1 [] c = "2" -> 2 [] c = "3" -> 3
      [] c = "4" -> 4 [] c = "5" -> 5 [] c = "6" -> 6 [] c = "7" -> 7
      [] c = "8" -> 8 [] c = "9" -> 9

RECURSIVE DigitsValue(_)
DigitsValue(s) ==
    IF s = <<>> THEN 0
    ELSE 10 * DigitsValue(SubSeq(s, 1, Len(s) - 1)) + DigitValue(s[Len(s)])

\* int(v): [ok, n]; ok is false when int raises ValueError.  v is an optional
\* sign followed by one or more digits.
IntOf(v) ==
    LET signed == v # <<>> /\ v[1] \in {"+", "-"}
        digits == IF signed THEN Tail(v) ELSE v
    IN  IF digits = <<>> \/ \E i \in 1..Len(digits) : ~IsDigit(digits[i])
        THEN [ok |-> FALSE, n |-> 0]
        ELSE [ok |-> TRUE,
              n  |-> IF signed /\ v[1] = "-" THEN 0 - DigitsValue(digits)
                     ELSE DigitsValue(digits)]

\* The texts that mean unlimited: "", "0", "none", "null".
UnlimitedWords ==
    {<<>>, <<"0">>, <<"n", "o", "n", "e">>, <<"n", "u", "l", "l">>}

\* The branch of _parse_limit for a text: v = val.strip().lower(); None for an
\* unlimited word, int(v) when positive, None otherwise.
ParseLimitText(val) ==
    LET v == Lower(Strip(val))
    IN  IF v \in UnlimitedWords THEN NoLimit
        ELSE IF ~IntOf(v).ok THEN NoLimit
        ELSE IF IntOf(v).n > 0 THEN <<IntOf(v).n>>
        ELSE NoLimit

\* Mutant of ParseLimit: the config value is read before the environment.
ParseLimitConfigFirst(env_val, cfg_val) ==
    IF cfg_val.type = "str" THEN ParseLimitText(cfg_val.str)
    ELSE IF cfg_val.type = "int"
    THEN (IF cfg_val.int > 0 THEN <<cfg_val.int>> ELSE NoLimit)
    ELSE IF env_val # <<>> THEN ParseLimitText(env_val[1])
    ELSE NoLimit

\* _parse_limit(env_val, cfg_val)
ParseLimit(env_val, cfg_val) ==
    IF env_val # <<>> THEN ParseLimitText(env_val[1])
    ELSE IF cfg_val.type = "str" THEN ParseLimitText(cfg_val.str)
    ELSE IF cfg_val.type = "int"
    THEN (IF cfg_val.int > 0 THEN <<cfg_val.int>> ELSE NoLimit)
    ELSE NoLimit

\* ------------------------------------------- specification: _parse_limit

\* The largest number drawn as a limit.
MaxLimit == 12

DigitChar(d) ==
    CHOOSE c \in {"0", "1", "2", "3", "4", "5", "6", "7", "8", "9"} : DigitValue(c) = d

\* The decimal numeral of a number below 100.
Numeral(n) ==
    IF n < 10 THEN <<DigitChar(n)>> ELSE <<DigitChar(n \div 10), DigitChar(n % 10)>>

\* The texts drawn for MAX_PER_SOURCE and for a config value written as a
\* string, each with the limit it stands for: the numerals of 0..MaxLimit,
\* plain, signed and padded, and texts that are no number.
LimitTexts ==
    {[text |-> Numeral(n), means |-> IF n > 0 THEN <<n>> ELSE NoLimit] : n \in 0..MaxLimit}
    \cup {[text |-> <<" ">> \o Numeral(n) \o <<" ">>,
           means |-> IF n > 0 THEN <<n>> ELSE NoLimit] : n \in 0..MaxLimit}
    \cup {[text |-> <<"+">> \o Numeral(n),
           means |-> IF n > 0 THEN <<n>> ELSE NoLimit] : n \in 0..MaxLimit}
    \cup {[text |-> <<"0">> \o Numeral(n),
           means |-> IF n > 0 THEN <<n>> ELSE NoLimit] : n \in 0..MaxLimit}
    \cup {[text |-> <<"-">> \o Numeral(n), means |-> NoLimit] : n \in 0..MaxLimit}
    \cup {[text |-> t, means |-> NoLimit] :
            t \in {<<>>, <<" ">>,
                   <<"n", "o", "n", "e">>, <<"N", "o", "n", "e">>,
                   <<"N", "O", "N", "E">>, <<" ", "n", "o", "n", "e">>,
                   <<"n", "u", "l", "l">>, <<"N", "U", "L", "L">>,
                   <<"a", "l", "l">>, <<"1", "x">>, <<"-">>, <<"1", " ", "2">>}}

\* The config values drawn: no value, a text, an integer, a float.
CfgVal(type, str, int) == [type |-> type, str |-> str, int |-> int]

LimitCfgVals ==
    {CfgVal("none", <<>>, 0), CfgVal("float", <<>>, 0)}
    \cup {CfgVal("str", r.text, 0) : r \in LimitTexts}
    \cup {CfgVal("int", <<>>, n) : n \in -1..MaxLimit}

InitLimit ==
    /\ pc = "start"
    /\ \E env_val \in {<<>>} \cup {<<r.text>> : r \in LimitTexts},
          cfg_val \in LimitCfgVals :
          arg = [env_val |-> env_val, cfg_val |-> cfg_val]
    /\ cfg = <<>>
    /\ world = <<>>
    /\ buckets = <<>>
    /\ ret = <<>>
    /\ err = ""

\* max_per_source = _parse_limit(env_limit, cfg_limit)
ParseLimitStep ==
    /\ pc = "start"
    /\ ret' = ParseLimit(arg.env_val, arg.cfg_val)
    /\ pc' = "parsed"
    /\ UNCHANGED <<cfg, world, arg, buckets, err>>

NextLimit == ParseLimitStep

SpecLimit == InitLimit /\ [][NextLimit]_vars

\* The limit a drawn text stands for.
MeaningOf(text) == (CHOOSE r \in LimitTexts : r.text = text).means

\* C14: _parse_limit gives priority env > config > unlimited: a set
\* environment value decides alone, otherwise the config value does, otherwise
\* the result is None; an empty value, 0, "none" or "null" in any letter case,
\* a non-positive number and a non-numeric value give None; the result is
\* always None or a positive integer.
C14_ParseLimitPriority ==
    pc = "parsed" =>
        /\ ret = NoLimit \/ (Len(ret) = 1 /\ ret[1] \in Nat /\ ret[1] > 0)
        /\ ret = IF arg.env_val # <<>> THEN MeaningOf(arg.env_val[1])
                 ELSE IF arg.cfg_val.type = "str" THEN MeaningOf(arg.cfg_val.str)
                 ELSE IF arg.cfg_val.type = "int" /\ arg.cfg_val.int > 0
                 THEN <<arg.cfg_val.int>>
                 ELSE NoLimit

\* The environment says "none" and the config 5: the result is None.
C14_Witness ==
    /\ pc = "parsed"
    /\ arg.env_val = <<(<<"N", "o", "n", "e">>)>>
    /\ arg.cfg_val = CfgVal("int", <<>>, 5)
    /\ ret = NoLimit

\* ---------------------------------------------- specification: aggregation

\* The adapter outputs drawn: a Reddit list of up to MaxItems items and a
\* Hacker News list of up to MaxOther items, each item with the id "a" or "b"
\* and dated 1, dated 2 or undated.
AdapterOutput(source, raw) ==
    WithOid([i \in 1..Len(raw) |->
                MakeItem(raw[i][1], TextAI, <<>>, raw[i][2], source, "", "l", "")])

AdapterOutputs ==
    {<<[name |-> "Reddit", items |-> AdapterOutput("Reddit", r1)],
       [name |-> "Hacker News", items |-> AdapterOutput("Hacker News", r2)]>> :
        r1 \in SeqsUpTo({"a", "b"} \X {NoTime, 1, 2}, MaxItems),
        r2 \in SeqsUpTo({"a", "b"} \X {NoTime, 1, 2}, MaxOther)}

\* The per-bucket sort of fetch_all followed by dedupe_buckets, as main runs
\* them on the adapters' lists: [raised, buckets].
Aggregate(bm) ==
    IF SortBuckets(bm).raised # "" THEN [raised |-> SortBuckets(bm).raised, buckets |-> <<>>]
    ELSE [raised |-> "", buckets |-> DedupeBuckets(SortBuckets(bm).buckets)]

InitAggregate ==
    /\ pc = "start"
    /\ arg \in AdapterOutputs
    /\ cfg = <<>>
    /\ world = <<>>
    /\ buckets = <<>>
    /\ ret = [raised |-> "", buckets |-> <<>>]
    /\ err = ""

\* A run: buckets = fetch_all(cfg); buckets = dedupe_buckets(buckets)
AggregateStep ==
    /\ pc = "start"
    /\ \E r \in {Aggregate(arg)} :
          /\ err' = r.raised
          /\ buckets' = r.buckets
    /\ pc' = "once"
    /\ UNCHANGED <<cfg, world, arg, ret>>

\* A second run on the same adapter outputs.
RerunStep ==
    /\ pc = "once"
    /\ ret' = Aggregate(arg)
    /\ pc' = "rerun"
    /\ UNCHANGED <<cfg, world, arg, buckets, err>>

\* The sort and the dedupe applied once more, to the lists of the first run.
ReaggregateStep ==
    /\ pc = "once"
    /\ err = ""
    /\ ret' = Aggregate(buckets)
    /\ pc' = "again"
    /\ UNCHANGED <<cfg, world, arg, buckets, err>>

NextAggregate == AggregateStep \/ RerunStep \/ ReaggregateStep

SpecAggregate == InitAggregate /\ [][NextAggregate]_vars

\* C15: aggregation is deterministic and idempotent: a second run on identical
\* adapter outputs, and the sort and dedupe applied again to the result of the
\* first, give a bucket map with the same keys, key order, items and item
\* order as the first run (and the same failure when the first run failed).
C15_AggregationIdempotent ==
    pc \in {"rerun", "again"} =>
        /\ ret.raised = err
        /\ ret.buckets = buckets

\* The sort and dedupe ran again on a Reddit bucket that lost a duplicate and
\* holds two items with the same timestamp.
C15_Witness ==
    /\ pc = "again"
    /\ Len(arg[1].items) = 3
    /\ Len(buckets[1].items) = 2
    /\ buckets[1].items[1].published = buckets[1].items[2].published

\* --------------------------------------------------------------- main
\* The environment is a record of the variables main and the senders read,
\* each NoneVal when unset: RESEND_API_KEY, RESEND_AUDIENCE_ID, TO_EMAIL, and
\* MAX_PER_SOURCE as an optional text.  Resend answers a request with a status
\* code and, for a created broadcast, an id (NoneVal when the body has none).
\* A run records in  ret  its locals (max_per_source, html, plain), what it
\* printed, the requests it posted, the calls it made in order (log) and its
\* return code (rc, -1 while it has not returned).

\* Mutant of DeliveryPath: the single recipient is preferred to the audience.
DeliveryPathSingleFirst(env) ==
    IF Falsy(env.RESEND_API_KEY) THEN "print"
    ELSE IF ~Falsy(env.TO_EMAIL) THEN "single"
    ELSE IF ~Falsy(env.RESEND_AUDIENCE_ID) THEN "broadcast"
    ELSE "error"

\* The branch main takes after rendering: print without RESEND_API_KEY, the
\* broadcast with RESEND_AUDIENCE_ID, else the single recipient with TO_EMAIL,
\* else RuntimeError.
DeliveryPath(env) ==
    IF Falsy(env.RESEND_API_KEY) THEN "print"
    ELSE IF ~Falsy(env.RESEND_AUDIENCE_ID) THEN "broadcast"
    ELSE IF Falsy(env.TO_EMAIL) THEN "error"
    ELSE "single"

\* Mutant of CreateOutcome: the status of the create response is not checked.
CreateOutcomeStatusUnchecked(resp) ==
    IF Falsy(resp.id) THEN "Resend Broadcast create response missing id" ELSE ""

\* Mutant of CreateOutcome: the id of the created broadcast is not checked.
CreateOutcomeIdUnchecked(resp) ==
    IF resp.status >= 300 THEN "Resend Broadcast create error" ELSE ""

\* send_via_resend_broadcast after the create request: the RuntimeError it
\* raises, "" when it goes on to send.
CreateOutcome(resp) ==
    IF resp.status >= 300 THEN "Resend Broadcast create error"
    ELSE IF Falsy(resp.id) THEN "Resend Broadcast create response missing id"
    ELSE ""

\* A request posted to Resend; id is the broadcast id in the url of a send
\* request.
Request(url, audience, to, html, text) ==
    [url |-> url, audience |-> audience, to |-> to, html |-> html, text |-> text,
     id |-> NoneVal]

\* The locals of a run of main before its first statement.
MainLocals ==
    [max_per_source |-> NoLimit, html |-> <<>>, plain |-> <<>>, stdout |-> <<>>,
     requests |-> <<>>, log |-> <<>>, rc |-> -1]

\* buckets = fetch_all(cfg)
MainFetchStep ==
    /\ pc = "main"
    /\ \E f \in {FetchAll(cfg, world)} :
          /\ err' = f.raised
          /\ buckets' = IF f.raised = "" THEN f.buckets ELSE <<>>
          /\ pc' = IF f.raised = "" THEN "fetched" ELSE "raised"
    /\ ret' = [ret EXCEPT !.log = Append(@, "fetch_all")]
    /\ UNCHANGED <<cfg, world, arg>>

\* buckets = dedupe_buckets(buckets)
MainDedupeStep ==
    /\ pc = "fetched"
    /\ buckets' = DedupeBuckets(buckets)
    /\ ret' = [ret EXCEPT !.log = Append(@, "dedupe_buckets")]
    /\ pc' = "deduped"
    /\ UNCHANGED <<cfg, world, arg, err>>

\* max_per_source = _parse_limit(env_limit, cfg_limit)
MainLimitStep ==
    /\ pc = "deduped"
    /\ ret' = [ret EXCEPT
                 !.max_per_source = ParseLimit(arg.MAX_PER_SOURCE, cfg.email_max_per_source),
                 !.log = Append(@, "_parse_limit")]
    /\ pc' = "limited"
    /\ UNCHANGED <<cfg, world, arg, buckets, err>>

\* html = render_html(buckets, max_per_source=max_per_source)
MainRenderHtmlStep ==
    /\ pc = "limited"
    /\ ret' = [ret EXCEPT !.html = RenderHtml(buckets, ret.max_per_source),
                          !.log = Append(@, "render_html")]
    /\ pc' = "html"
    /\ UNCHANGED <<cfg, world, arg, buckets, err>>

\* plain = render_plaintext(buckets, max_per_source=max_per_source)
MainRenderPlaintextStep ==
    /\ pc = "html"
    /\ ret' = [ret EXCEPT !.plain = RenderPlaintext(buckets, ret.max_per_source),
                          !.log = Append(@, "render_plaintext")]
    /\ pc' = "rendered"
    /\ UNCHANGED <<cfg, world, arg, buckets, err>>

\* if not os.getenv("RESEND_API_KEY"): print(html); return 0
MainPrintStep ==
    /\ pc = "rendered"
    /\ DeliveryPath(arg) = "print"
    /\ ret' = [ret EXCEPT !.stdout = ret.html, !.rc = 0, !.log = Append(@, "print")]
    /\ pc' = "done"
    /\ UNCHANGED <<cfg, world, arg, buckets, err>>

\* send_via_resend_broadcast: the create request and the checks of its answer
BroadcastCreateStep ==
    /\ pc = "rendered"
    /\ DeliveryPath(arg) = "broadcast"
    /\ ret' = [ret EXCEPT
                 !.requests = Append(@, Request("broadcasts", arg.RESEND_AUDIENCE_ID,
                                                NoneVal, ret.html, ret.plain)),
                 !.log = Append(@, "post")]
    /\ err' = CreateOutcome(world.resend.create)
    /\ pc' = IF CreateOutcome(world.resend.create) = "" THEN "created" ELSE "raised"
    /\ UNCHANGED <<cfg, world, arg, buckets>>

\* send_via_resend_broadcast: the send request; main returns 0 after it
BroadcastSendStep ==
    /\ pc = "created"
    /\ ret' = [ret EXCEPT
                 !.requests = Append(@, [Request("broadcasts/id/send", NoneVal, NoneVal,
                                                 <<>>, <<>>)
                                            EXCEPT !.id = world.resend.create.id]),
                 !.log = Append(@, "post"),
                 !.rc = IF world.resend.send.status >= 300 THEN -1 ELSE 0]
    /\ err' = IF world.resend.send.status >= 300 THEN "Resend Broadcast send error" ELSE ""
    /\ pc' = IF world.resend.send.status >= 300 THEN "raised" ELSE "done"
    /\ UNCHANGED <<cfg, world, arg, buckets>>

\* send_via_resend_single; main returns 0 after it
SingleSendStep ==
    /\ pc = "rendered"
    /\ DeliveryPath(arg) = "single"
    /\ ret' = [ret EXCEPT
                 !.requests = Append(@, Request("emails", NoneVal, arg.TO_EMAIL,
                                                ret.html, ret.plain)),
                 !.log = Append(@, "post"),
                 !.rc = IF world.resend.email.status >= 300 THEN -1 ELSE 0]
    /\ err' = IF world.resend.email.status >= 300 THEN "Resend email error" ELSE ""
    /\ pc' = IF world.resend.email.status >= 300 THEN "raised" ELSE "done"
    /\ UNCHANGED <<cfg, world, arg, buckets>>

\* raise RuntimeError("Neither RESEND_AUDIENCE_ID nor TO_EMAIL is set; ...")
NoRecipientStep ==
    /\ pc = "rendered"
    /\ DeliveryPath(arg) = "error"
    /\ err' = "Neither RESEND_AUDIENCE_ID nor TO_EMAIL is set"
    /\ pc' = "raised"
    /\ UNCHANGED <<cfg, world, arg, buckets, ret>>

\* --------------------------------------------------- specification: main

\* The config of the run: every source enabled with the one target t1, no
\* filter, and email.max_per_source unset.
MainConfig ==
    ConfigOf([k \in 1..Len(SourceKeys) |->
                 [EmptyBlock(SourceKeys[k]) EXCEPT !.has = {"targets"},
                                                   !.targets = <<"t1">>]])
    @@ [email_max_per_source |-> CfgVal("none", <<>>, 0)]

\* The listings drawn: none, one entry, two dated entries, a dated and an
\* undated entry.
MainListings ==
    {<<>>, <<MkEntry("a", "la", 3)>>, TwoDated,
     <<MkEntry("a", "la", 3), MkEntry("b", "lb", NoTime)>>}

\* What Resend may answer: each request with 200 or 500, and a created
\* broadcast with or without an id.
ResendAnswers ==
    {[create |-> [status |-> c, id |-> id], send |-> [status |-> sd, id |-> NoneVal],
      email |-> [status |-> e, id |-> NoneVal]] :
        c \in {200, 500}, id \in {NoneVal, "b1"}, sd \in {200, 500}, e \in {200, 500}}

\* The worlds drawn: every provider answers alike, with a listing or a
\* failure; the OpenReview client can be created or not.
MainWorlds ==
    {[now |-> 4,
      src |-> [key \in Range(SourceKeys) |-> Provider(client, status, l)],
      resend |-> r] :
        client \in BOOLEAN, status \in {"ok", "fail"}, l \in MainListings,
        r \in ResendAnswers}

\* The environments drawn: each variable unset, empty or set.
MainEnvs ==
    {[RESEND_API_KEY |-> key, RESEND_AUDIENCE_ID |-> aud, TO_EMAIL |-> to,
      MAX_PER_SOURCE |-> cap] :
        key \in {NoneVal, "", "re_key"}, aud \in {NoneVal, "", "aud_1"},
        to \in {NoneVal, "", "me@example.org"}, cap \in {<<>>, <<(<<"1">>)>>}}

InitMain ==
    /\ pc = "main"
    /\ cfg = MainConfig
    /\ world \in MainWorlds
    /\ arg \in MainEnvs
    /\ buckets = <<>>
    /\ ret = MainLocals
    /\ err = ""

NextMain ==
    \/ MainFetchStep
    \/ MainDedupeStep
    \/ MainLimitStep
    \/ MainRenderHtmlStep
    \/ MainRenderPlaintextStep
    \/ MainPrintStep
    \/ BroadcastCreateStep
    \/ BroadcastSendStep
    \/ SingleSendStep
    \/ NoRecipientStep

SpecMain == InitMain /\ [][NextMain]_vars

\* fetch_all has returned its bucket map in this run.
FetchReturned == pc = "fetched" \/ "dedupe_buckets" \in Range(ret.log)

\* Every source returned zero items.
AllSourcesEmpty ==
    /\ FetchReturned
    /\ buckets # <<>>
    /\ \A k \in 1..Len(buckets) : buckets[k].items = <<>>

\* The errors the delivery code of main and of the senders raises.
DeliveryErrors ==
    {"Resend Broadcast create error", "Resend Broadcast create response missing id",
     "Resend Broadcast send error", "Resend email error",
     "Neither RESEND_AUDIENCE_ID nor TO_EMAIL is set"}

\* A digest that consists of its title heading only.
TitleOnly(doc) == Len(doc) = 1 /\ doc[1].kind \in {"h2", "header"}

\* C16: when every source returns zero items the run does not fail or refuse:
\* render_html and render_plaintext return a digest of the title heading
\* only, with no per-source heading and no item entry, and main goes on to
\* print it or to post it.
C16_EmptyDigestStillRendered ==
    AllSourcesEmpty =>
        /\ pc = "raised" => err \in DeliveryErrors
        /\ pc \in {"fetched", "deduped", "limited", "html", "rendered", "created"}
              => ENABLED NextMain
        /\ "render_html" \in Range(ret.log) => TitleOnly(ret.html)
        /\ "render_plaintext" \in Range(ret.log) => TitleOnly(ret.plain)
        /\ (pc = "done" /\ ret.requests = <<>>) => ret.stdout = ret.html
        /\ ret.requests # <<>> =>
              /\ ret.requests[1].html = ret.html
              /\ ret.requests[1].text = ret.plain

\* Every source returned nothing and the title-only digest was posted.
C16_Witness ==
    /\ AllSourcesEmpty
    /\ pc = "done"
    /\ ret.requests # <<>>
    /\ TitleOnly(ret.requests[1].html)

\* main has passed its delivery decision (lines 300-311): it printed, posted
\* a request or raised one of the delivery errors.
DeliveryDecided ==
    \/ pc \in {"done", "created"}
    \/ pc = "raised" /\ err \in DeliveryErrors

\* The urls of the Broadcasts path.
BroadcastUrls == {"broadcasts", "broadcasts/id/send"}

\* C17: main chooses the delivery path from the environment: without
\* RESEND_API_KEY it issues no request, prints the HTML and returns 0; with the
\* key and RESEND_AUDIENCE_ID every request goes to Broadcasts and none to the
\* single-recipient endpoint; with the key, no audience id and TO_EMAIL the one
\* request goes to the single recipient; with the key and neither it raises
\* and issues no request.
C17_DeliveryPathFromEnv ==
    /\ ~DeliveryDecided => ret.requests = <<>> /\ ret.stdout = <<>>
    /\ DeliveryDecided =>
          /\ Falsy(arg.RESEND_API_KEY) =>
                /\ ret.requests = <<>>
                /\ pc = "done"
                /\ ret.stdout = ret.html
                /\ ret.rc = 0
          /\ ~Falsy(arg.RESEND_API_KEY) => ret.stdout = <<>>
          /\ (~Falsy(arg.RESEND_API_KEY) /\ ~Falsy(arg.RESEND_AUDIENCE_ID)) =>
                /\ ret.requests # <<>>
                /\ \A i \in 1..Len(ret.requests) : ret.requests[i].url \in BroadcastUrls
                /\ ret.requests[1].audience = arg.RESEND_AUDIENCE_ID
          /\ (~Falsy(arg.RESEND_API_KEY) /\ Falsy(arg.RESEND_AUDIENCE_ID)
                /\ ~Falsy(arg.TO_EMAIL)) =>
                /\ Len(ret.requests) = 1
                /\ ret.requests[1].url = "emails"
                /\ ret.requests[1].to = arg.TO_EMAIL
          /\ (~Falsy(arg.RESEND_API_KEY) /\ Falsy(arg.RESEND_AUDIENCE_ID)
                /\ Falsy(arg.TO_EMAIL)) =>
                /\ pc = "raised"
                /\ err = "Neither RESEND_AUDIENCE_ID nor TO_EMAIL is set"
                /\ ret.requests = <<>>

\* Key, audience id and TO_EMAIL are all set and the broadcast was created
\* and sent.
C17_Witness ==
    /\ pc = "done"
    /\ ~Falsy(arg.RESEND_API_KEY)
    /\ ~Falsy(arg.RESEND_AUDIENCE_ID)
    /\ ~Falsy(arg.TO_EMAIL)
    /\ Len(ret.requests) = 2

\* How many times a step is written in the log of the run.
TimesRun(step) == Cardinality({i \in 1..Len(ret.log) : ret.log[i] = step})

\* Whether Resend's answer to a request is a delivery failure: a status of
\* 300 or more, or a create answer without an id.
AnswerFails(req) ==
    IF req.url = "broadcasts"
    THEN world.resend.create.status >= 300 \/ Falsy(world.resend.create.id)
    ELSE IF req.url = "emails" THEN world.resend.email.status >= 300
    ELSE world.resend.send.status >= 300

\* C18: a delivery failure (a Resend answer with status >= 300, or a create
\* answer without an id) propagates as an error out of main, while fetch_all
\* and dedupe_buckets are executed once, both before the first delivery
\* request, and the failure neither re-executes them nor alters the buckets.
C18_DeliveryFailurePropagates ==
    /\ pc # "main" => TimesRun("fetch_all") = 1
    /\ TimesRun("dedupe_buckets") <= 1
    /\ \A i \in 1..Len(ret.log) :
          ret.log[i] = "post" =>
             \E j \in 1..(i - 1) : \E k \in (j + 1)..(i - 1) :
                /\ ret.log[j] = "fetch_all"
                /\ ret.log[k] = "dedupe_buckets"
    /\ DeliveryDecided =>
          /\ TimesRun("dedupe_buckets") = 1
          /\ buckets = DedupeBuckets(FetchAll(cfg, world).buckets)
    /\ (ret.requests # <<>> /\ AnswerFails(ret.requests[Len(ret.requests)])) =>
          /\ pc = "raised"
          /\ err \in DeliveryErrors
          /\ ret.rc # 0
    /\ (ret.requests # <<>> /\ AnswerFails(ret.requests[1])) => Len(ret.requests) = 1

\* Resend answered the create request with 200 and no id: main raised, with
\* the aggregated items in the buckets.
C18_Witness ==
    /\ pc = "raised"
    /\ err = "Resend Broadcast create response missing id"
    /\ world.resend.create.status = 200
    /\ \E k \in 1..Len(buckets) : buckets[k].items # <<>>

\* ------------------------------------- specification: arXiv's paging loop
\* The loop  while True  of sources/arxiv.py, one page request per step,
\* against a provider that answers every request as it likes.  arg holds the
\* loop's locals [ci, start, pages] (ci: the index of the category), ret the
\* number of page requests issued per category and the accumulator
\* [out, seen, stop] of ArxivEntries, world the clock and the global filters.

\* The largest max_pages_per_category drawn.
MaxPages == 3

\* The largest max_results_per_category drawn.
MaxPageSize == 2

\* A page of n entries, the first one published at  first  and the others
\* inside the lookback window.
PageOf(n, first) ==
    [i \in 1..n |-> MkEntry("a", "la", IF i = 1 THEN first ELSE 3)]

\* What the provider may answer to one page request of the given size: no
\* entry, a full page of recent entries, a full page that starts with an entry
\* older than the cutoff, a page one entry short, or a failure that
\* feedparser.parse raises.
PageAnswers(size) ==
    {[status |-> "ok", entries |-> e] :
        e \in {<<>>, PageOf(size, 3), PageOf(size, 1), PageOf(size - 1, 3)}}
    \cup {[status |-> "raise", entries |-> <<>>]}

\* The arXiv blocks drawn: two categories, a page size, fetch_all set or not,
\* and a max_pages_per_category from -1 to MaxPages.
PagingConfigs ==
    {[EmptyBlock("arxiv") EXCEPT
         !.has = {"targets", "max_results_per_category", "fetch_all",
                  "max_pages_per_category"},
         !.targets = <<"c1", "c2">>,
         !.max_results_per_category = size,
         !.fetch_all = all,
         !.max_pages_per_category = cap] :
        size \in 1..MaxPageSize, all \in BOOLEAN, cap \in (-1)..MaxPages}

\* The global filters drawn: with lookback_days (as main passes them) or
\* without.
PagingFilters ==
    {[has |-> h, lookback_days |-> 1, include_keywords |-> <<>>,
      exclude_keywords |-> <<>>, priority_authors |-> <<>>] :
        h \in {{}, {"lookback_days"}}}

InitPaging ==
    /\ pc = "page"
    /\ cfg \in PagingConfigs
    /\ \E gf \in PagingFilters : world = [now |-> 4, gf |-> gf]
    /\ arg = [ci |-> 1, start |-> 0, pages |-> 0]
    /\ ret = [requests |-> [c \in 1..Len(cfg.targets) |-> 0],
              acc |-> [out |-> <<>>, seen |-> {}, stop |-> FALSE]]
    /\ buckets = <<>>
    /\ err = ""

\* One pass of the loop  while True  (lines 93-169): the request, the loop
\* over the page's entries, and the four tests that leave the loop.  Leaving
\* it moves on to the next category with start = 0 and pages = 0.
ArxivPageStep ==
    /\ pc = "page"
    /\ arg.ci <= Len(cfg.targets)
    /\ \E answer \in PageAnswers(ArxivPaging(cfg, ArxivCutoff(world.gf, world.now)).size) :
       \E pg \in {ArxivPaging(cfg, ArxivCutoff(world.gf, world.now))} :
       \E a \in {ArxivEntries(answer.entries, cfg.targets[arg.ci],
                              ArxivCutoff(world.gf, world.now), ArxivKeywords(world.gf),
                              world.now, [ret.acc EXCEPT !.stop = FALSE])} :
          /\ ret' = [requests |-> [ret.requests EXCEPT ![arg.ci] = @ + 1],
                     acc |-> IF answer.status = "raise" \/ answer.entries = <<>>
                             THEN ret.acc ELSE a]
          /\ err' = IF answer.status = "raise" THEN "ProviderError" ELSE ""
          /\ pc' = IF answer.status = "raise" THEN "raised" ELSE "page"
          /\ arg' = IF answer.status = "raise" THEN arg
                    ELSE IF \/ answer.entries = <<>>
                            \/ a.stop
                            \/ Len(answer.entries) < pg.size
                            \/ ~pg.paging
                            \/ arg.pages + 1 >= pg.max_pages
                    THEN [ci |-> arg.ci + 1, start |-> 0, pages |-> 0]
                    ELSE [ci |-> arg.ci, start |-> arg.start + pg.size,
                          pages |-> arg.pages + 1]
    /\ UNCHANGED <<cfg, world, buckets>>

\* return all_entries, after the last category
ArxivReturnStep ==
    /\ pc = "page"
    /\ arg.ci > Len(cfg.targets)
    /\ pc' = "returned"
    /\ buckets' = <<[name |-> "arXiv", items |-> ret.acc.out]>>
    /\ UNCHANGED <<cfg, world, arg, ret, err>>

NextPaging ==
    \/ ArxivPageStep
    \/ ArxivReturnStep

SpecPaging == InitPaging /\ [][NextPaging]_vars

\* The cap on the page requests of one category.
PageRequestCap == Max(1, Get(cfg, "max_pages_per_category", 1000))

\* C19: the arXiv adapter's paging terminates for every provider behaviour:
\* for each category it issues at least one and at most
\* max(1, max_pages_per_category) page requests, and fetch returns after the
\* last category.
C19_PagingTerminates ==
    /\ \A c \in 1..Len(cfg.targets) : ret.requests[c] <= PageRequestCap
    /\ pc # "page" =>
          /\ pc = "returned"
          /\ \A c \in 1..Len(cfg.targets) : ret.requests[c] >= 1

\* ----------------------------- specification: requests and their timeouts
\* fetch_all over the six adapters, each issuing one provider request, with
\* providers that may never respond.  world.silent is the set of source keys
\* whose provider never responds; arg.k is the index of the adapter fetch_all
\* is about to call; ret.requests lists the requests issued, each with the
\* timeout the code passes.

\* requests.get(url, headers=..., timeout=20)
RequestTimeout == 20

\* A request that is issued without a timeout argument.
NoTimeout == 0

\* What a request with the given timeout comes to: the provider answers; or
\* it never responds and the timeout raises inside the adapter's try; or it
\* never responds and, without a timeout, the call never returns.
Awaited(key, timeout) ==
    IF key \notin world.silent THEN {"answered"}
    ELSE IF timeout = NoTimeout THEN {"blocked"}
    ELSE {"timed out"}

\* What the OpenReview client's get_all_notes comes to.  The adapter passes no
\* timeout; whether the client library bounds the wait itself is not decided
\* by this code, so a silent provider either blocks the call or makes the
\* library raise inside the adapter's try.
AwaitedClient(key) ==
    IF key \notin world.silent THEN {"answered"} ELSE {"blocked", "timed out"}

\* The items an adapter returns after its request: the one listed entry, or
\* nothing when the request timed out and the target was skipped.
Fetched(o) ==
    IF o = "answered"
    THEN <<MakeItem("a", TextAI, <<>>, 3, "", "", "la", "")>>
    ELSE <<>>

\* sources/arxiv.py line 95: feedparser.parse(url), no timeout
ArxivRequestStep ==
    /\ pc = "fetching"
    /\ arg.k = 1
    /\ \E o \in Awaited("arxiv", NoTimeout) :
          /\ ret' = [ret EXCEPT !.requests = Append(@, [source |-> "arxiv",
                                                        timeout |-> NoTimeout])]
          /\ pc' = IF o = "blocked" THEN "blocked" ELSE "fetching"
          /\ arg' = IF o = "blocked" THEN arg ELSE [k |-> arg.k + 1]
          /\ buckets' = IF o = "blocked" THEN buckets
                        ELSE Append(buckets, [name |-> SourceNames[1],
                                              items |-> Fetched(o)])
    /\ UNCHANGED <<cfg, world, err>>

\* sources/openreview.py lines 45-51: client.get_all_notes(...), no timeout
OpenReviewRequestStep ==
    /\ pc = "fetching"
    /\ arg.k = 2
    /\ \E o \in AwaitedClient("openreview") :
          /\ ret' = [ret EXCEPT !.requests = Append(@, [source |-> "openreview",
                                                        timeout |-> NoTimeout])]
          /\ pc' = IF o = "blocked" THEN "blocked" ELSE "fetching"
          /\ arg' = IF o = "blocked" THEN arg ELSE [k |-> arg.k + 1]
          /\ buckets' = IF o = "blocked" THEN buckets
                        ELSE Append(buckets, [name |-> SourceNames[2],
                                              items |-> Fetched(o)])
    /\ UNCHANGED <<cfg, world, err>>

\* sources/acl.py line 14: feedparser.parse(url), no timeout
AclRequestStep ==
    /\ pc = "fetching"
    /\ arg.k = 3
    /\ \E o \in Awaited("acl", NoTimeout) :
          /\ ret' = [ret EXCEPT !.requests = Append(@, [source |-> "acl",
                                                        timeout |-> NoTimeout])]
          /\ pc' = IF o = "blocked" THEN "blocked" ELSE "fetching"
          /\ arg' = IF o = "blocked" THEN arg ELSE [k |-> arg.k + 1]
          /\ buckets' = IF o = "blocked" THEN buckets
                        ELSE Append(buckets, [name |-> SourceNames[3],
                                              items |-> Fetched(o)])
    /\ UNCHANGED <<cfg, world, err>>

\* sources/reddit.py lines 28-33: requests.get(..., timeout=20) in a try
RedditRequestStep ==
    /\ pc = "fetching"
    /\ arg.k = 4
    /\ \E o \in Awaited("reddit", RequestTimeout) :
          /\ ret' = [ret EXCEPT !.requests = Append(@, [source |-> "reddit",
                                                        timeout |-> RequestTimeout])]
          /\ pc' = IF o = "blocked" THEN "blocked" ELSE "fetching"
          /\ arg' = IF o = "blocked" THEN arg ELSE [k |-> arg.k + 1]
          /\ buckets' = IF o = "blocked" THEN buckets
                        ELSE Append(buckets, [name |-> SourceNames[4],
                                              items |-> Fetched(o)])
    /\ UNCHANGED <<cfg, world, err>>

\* sources/hn.py lines 39-44: requests.get(..., timeout=20) in a try
HnRequestStep ==
    /\ pc = "fetching"
    /\ arg.k = 5
    /\ \E o \in Awaited("hn", RequestTimeout) :
          /\ ret' = [ret EXCEPT !.requests = Append(@, [source |-> "hn",
                                                        timeout |-> RequestTimeout])]
          /\ pc' = IF o = "blocked" THEN "blocked" ELSE "fetching"
          /\ arg' = IF o = "blocked" THEN arg ELSE [k |-> arg.k + 1]
          /\ buckets' = IF o = "blocked" THEN buckets
                        ELSE Append(buckets, [name |-> SourceNames[5],
                                              items |-> Fetched(o)])
    /\ UNCHANGED <<cfg, world, err>>

\* sources/hackernoon.py lines 38-43: requests.get(..., timeout=20) in a try
HackernoonRequestStep ==
    /\ pc = "fetching"
    /\ arg.k = 6
    /\ \E o \in Awaited("hackernoon", RequestTimeout) :
          /\ ret' = [ret EXCEPT !.requests = Append(@, [source |-> "hackernoon",
                                                        timeout |-> RequestTimeout])]
          /\ pc' = IF o = "blocked" THEN "blocked" ELSE "fetching"
          /\ arg' = IF o = "blocked" THEN arg ELSE [k |-> arg.k + 1]
          /\ buckets' = IF o = "blocked" THEN buckets
                        ELSE Append(buckets, [name |-> SourceNames[6],
                                              items |-> Fetched(o)])
    /\ UNCHANGED <<cfg, world, err>>

\* fetch_all: the sort of the buckets and  return buckets
FetchAllReturnStep ==
    /\ pc = "fetching"
    /\ arg.k = Len(SourceKeys) + 1
    /\ pc' = "returned"
    /\ UNCHANGED <<cfg, world, arg, buckets, ret, err>>

InitTimeout ==
    /\ pc = "fetching"
    /\ cfg = MainConfig
    /\ \E silent \in SUBSET Range(SourceKeys) : world = [now |-> 4, silent |-> silent]
    /\ arg = [k |-> 1]
    /\ buckets = <<>>
    /\ ret = [requests |-> <<>>]
    /\ err = ""

NextTimeout ==
    \/ ArxivRequestStep
    \/ OpenReviewRequestStep
    \/ AclRequestStep
    \/ RedditRequestStep
    \/ HnRequestStep
    \/ HackernoonRequestStep
    \/ FetchAllReturnStep

SpecTimeout == InitTimeout /\ [][NextTimeout]_vars

\* C20: every provider request issued by any adapter is bounded by a
\* per-request timeout, so that with a provider that never responds fetch_all
\* is never left waiting without end: it goes on to return, the silent source
\* degraded to an empty bucket and the other sources fetched.
C20_EveryRequestTimeBounded ==
    /\ \A i \in 1..Len(ret.requests) : ret.requests[i].timeout # NoTimeout
    /\ pc # "blocked"
    /\ pc = "returned" =>
          /\ Len(buckets) = Len(SourceKeys)
          /\ \A k \in 1..Len(buckets) :
                buckets[k].items = <<>> <=> SourceKeys[k] \in world.silent

\* ------------------------------ specification: the pipeline on the items
\* The sort of fetch_all, dedupe_buckets, render_html and render_plaintext
\* applied in any sequence to a bucket map the adapters returned.  world holds
\* the map as returned, buckets the map as it is now, arg the cap and the
\* number of steps taken, ret the last step, the map before it and the
\* document it returned.

\* The longest sequence of steps taken.
MaxSteps == 3

\* The items an adapter may have returned: a title to strip and escape with a
\* summary longer than the budget; a later item with the same id; an item
\* without id; an undated item without id and link.
FrameItems ==
    {MakeItem("a", <<" ", "&", "A">>, <<"a", "a", " ", "a", "a", "a", "a">>, 1,
              "Reddit", "t1", "la", ""),
     MakeItem("a", TextAI, <<>>, 2, "Reddit", "t1", "lb", "p"),
     MakeItem("", TextAI, <<"a">>, 3, "Reddit", "t1", "lc", ""),
     MakeItem("", <<"B">>, <<>>, NoTime, "Reddit", "t1", "", "")}

\* The bucket maps drawn: a Reddit bucket of up to MaxItems such items and a
\* Hacker News bucket of one.
FrameBuckets ==
    {<<[name |-> "Reddit", items |-> WithOid(q)],
       [name |-> "Hacker News",
        items |-> WithOid(<<MakeItem("a", TextAI, <<>>, 2, "Hacker News", "t1", "la", "")>>)]>> :
        q \in SeqsUpTo(FrameItems, MaxItems)}

InitFrame ==
    /\ pc = "ready"
    /\ \E bm \in FrameBuckets : world = [returned |-> bm] /\ buckets = bm
    /\ \E cap \in {NoLimit, <<1>>} : arg = [max_per_source |-> cap, steps |-> 0]
    /\ ret = [last |-> "", before |-> <<>>, doc |-> <<>>]
    /\ cfg = <<>>
    /\ err = ""

\* for items in buckets.values(): items.sort(...)
FrameSortStep ==
    /\ pc = "ready"
    /\ arg.steps < MaxSteps
    /\ buckets' = SortBuckets(buckets).buckets
    /\ err' = SortBuckets(buckets).raised
    /\ ret' = [last |-> "sort", before |-> buckets, doc |-> <<>>]
    /\ arg' = [arg EXCEPT !.steps = @ + 1]
    /\ UNCHANGED <<pc, cfg, world>>

\* buckets = dedupe_buckets(buckets)
FrameDedupeStep ==
    /\ pc = "ready"
    /\ arg.steps < MaxSteps
    /\ buckets' = DedupeBuckets(buckets)
    /\ ret' = [last |-> "dedupe_buckets", before |-> buckets, doc |-> <<>>]
    /\ arg' = [arg EXCEPT !.steps = @ + 1]
    /\ UNCHANGED <<pc, cfg, world, err>>

\* html = render_html(buckets, max_per_source): no statement of the function
\* assigns to buckets, to a list or to an item.
FrameRenderHtmlStep ==
    /\ pc = "ready"
    /\ arg.steps < MaxSteps
    /\ ret' = [last |-> "render_html", before |-> buckets,
               doc |-> RenderHtml(buckets, arg.max_per_source)]
    /\ arg' = [arg EXCEPT !.steps = @ + 1]
    /\ UNCHANGED <<pc, cfg, world, buckets, err>>

\* plain = render_plaintext(buckets, max_per_source): likewise
FrameRenderPlaintextStep ==
    /\ pc = "ready"
    /\ arg.steps < MaxSteps
    /\ ret' = [last |-> "render_plaintext", before |-> buckets,
               doc |-> RenderPlaintext(buckets, arg.max_per_source)]
    /\ arg' = [arg EXCEPT !.steps = @ + 1]
    /\ UNCHANGED <<pc, cfg, world, buckets, err>>

NextFrame ==
    \/ FrameSortStep
    \/ FrameDedupeStep
    \/ FrameRenderHtmlStep
    \/ FrameRenderPlaintextStep

SpecFrame == InitFrame /\ [][NextFrame]_vars

\* The item of bucket k that the adapter returned as its oid-th.
AsReturned(k, oid) == world.returned[k].items[oid]

\* C21: items are never mutated after an adapter returned them: after any
\* sequence of the sort, dedupe_buckets, render_html and render_plaintext every
\* item still present has exactly the field values it had when returned, the
\* keys of the bucket map stay, and a rendering leaves the keys, the lists
\* and their order as they were.
C21_ItemsNeverMutated ==
    /\ Len(buckets) = Len(world.returned)
    /\ \A k \in 1..Len(buckets) :
          /\ buckets[k].name = world.returned[k].name
          /\ \A i \in 1..Len(buckets[k].items) :
                /\ buckets[k].items[i].oid \in 1..Len(world.returned[k].items)
                /\ buckets[k].items[i] = AsReturned(k, buckets[k].items[i].oid)
    /\ ret.last \in {"render_html", "render_plaintext"} => buckets = ret.before

\* After a sort and dedupe_buckets, a rendering wrote a stripped, escaped title
\* and a truncated summary, and the item still holds the title and summary
\* its adapter returned.
C21_Witness ==
    /\ ret.last = "render_html"
    /\ arg.steps = MaxSteps
    /\ buckets # world.returned
    /\ \E i \in 1..Len(ret.doc) : \E j \in 1..Len(buckets[1].items) :
          /\ ret.doc[i].kind = "li"
          /\ ret.doc[i].link = "la"
          /\ ret.doc[i].text # buckets[1].items[j].title
          /\ ret.doc[i].summary # buckets[1].items[j].summary
          /\ buckets[1].items[j].link = "la"
          /\ Len(buckets[1].items[j].summary) > RenderBudget

\* ------------------------------- specification: fetch_all and the lookback
\* fetch_all with the global lookback_days set, on providers that list dated
\* entries of several ages, newest first.

\* The listings drawn: up to MaxEntries entries with ids by position, dated
\* between 1 and the clock reading 4, newest first.
LookbackListings ==
    {[i \in 1..Len(p) |-> MkEntry(PosIds[i], PosIds[i], p[i])] :
        p \in {q \in SeqsUpTo(1..4, MaxEntries) :
                 \A i \in 1..(Len(q) - 1) : q[i] > q[i + 1]}}

\* The configs drawn: lookback_days 0 or 1 at the top level, no keyword
\* filter, and any set of sources enabled, each with the one target t1.
LookbackConfigs ==
    {[ConfigOf([k \in 1..Len(SourceKeys) |->
                  [EmptyBlock(SourceKeys[k]) EXCEPT
                      !.has = {"targets", "enabled"}, !.targets = <<"t1">>,
                      !.enabled = SourceKeys[k] \in on]])
         EXCEPT !.has = {"lookback_days"}, !.lookback_days = days] :
        on \in SUBSET Range(SourceKeys), days \in {0, 1}}

InitLookback ==
    /\ pc = "start"
    /\ cfg \in LookbackConfigs
    /\ \E l \in LookbackListings :
          world = [now |-> 4,
                   src |-> [key \in Range(SourceKeys) |-> Provider(TRUE, "ok", l)]]
    /\ arg = <<>>
    /\ buckets = <<>>
    /\ ret = <<>>
    /\ err = ""

NextLookback == FetchAllStep

SpecLookback == InitLookback /\ [][NextLookback]_vars

\* The ids of the entries a source's provider lists for target t1.
ListedIds(key) ==
    {world.src[key].resp["t1"].entries[i].id :
        i \in 1..Len(world.src[key].resp["t1"].entries)}

\* The ids of the items in the bucket of a source.
BucketIds(key) ==
    UNION {{buckets[k].items[i].id : i \in 1..Len(buckets[k].items)} :
             k \in {k \in 1..Len(buckets) :
                      \E j \in 1..Len(SourceKeys) :
                         SourceKeys[j] = key /\ buckets[k].name = SourceNames[j]}}

\* C22: with the global lookback_days = 0 no adapter drops an entry because of
\* its age: with no keyword filter set, every enabled source's bucket, arXiv's
\* included, holds every entry its provider lists, whatever its date.
C22_ZeroLookbackKeepsAll ==
    (pc = "fetched" /\ cfg.lookback_days = 0) =>
        \A j \in 1..Len(SourceKeys) :
           SourceEnabled(cfg.sources, SourceKeys[j]) =>
              BucketIds(SourceKeys[j]) = ListedIds(SourceKeys[j])

\* The places of the items with the given id in a list.
PlacesOfId(items, id) == {i \in 1..Len(items) : items[i].id = id}

\* C23: in the main pipeline (fetch_all, then dedupe_buckets), when an adapter
\* returns two items with the same id for the same source, the final bucket
\* holds exactly one of them, the one the adapter returned first, whatever
\* the published timestamps of the two are.
C23_FirstReturnedSurvives ==
    (pc = "once" /\ err = "") =>
        \A k \in 1..Len(arg) :
           \A i \in 1..Len(arg[k].items) :
              /\ Cardinality(PlacesOfId(buckets[k].items, arg[k].items[i].id)) = 1
              /\ \A j \in PlacesOfId(buckets[k].items, arg[k].items[i].id) :
                    \A r \in PlacesOfId(arg[k].items, arg[k].items[i].id) :
                       buckets[k].items[j].oid <= arg[k].items[r].oid

\* ------------------------------------------------ _norm_arxiv_id, as text
\* The provider id of an arXiv entry as the text it is, e.g.
\* http://arxiv.org/abs/2401.01234v2, and the adapter's pass over the listed
\* entries as far as the id is concerned (sources/arxiv.py lines 85-119, no
\* cutoff and no keyword filter set).

\* raw_id.rstrip("/")
RStripSlash(t) ==
    IF \A i \in 1..Len(t) : t[i] = "/" THEN <<>>
    ELSE SubSeq(t, 1, CHOOSE n \in 1..Len(t) :
                         /\ t[n] # "/"
                         /\ \A i \in (n + 1)..Len(t) : t[i] = "/")

\* t.rsplit("/", 1)[-1]
LastSegment(t) ==
    IF \A i \in 1..Len(t) : t[i] # "/" THEN t
    ELSE SubSeq(t, 1 + (CHOOSE n \in 1..Len(t) :
                          /\ t[n] = "/"
                          /\ \A i \in (n + 1)..Len(t) : t[i] # "/"), Len(t))

\* The places where the pattern  v\d+$  matches in t.
VersionMatches(t) ==
    {n \in 1..Len(t) : /\ t[n] = "v"
                       /\ n < Len(t)
                       /\ \A i \in (n + 1)..Len(t) : IsDigit(t[i])}

\* re.sub(r"v\d+$", "", t)
StripVersion(t) ==
    IF VersionMatches(t) = {} THEN t
    ELSE SubSeq(t, 1, (CHOOSE n \in VersionMatches(t) :
                         \A m \in VersionMatches(t) : n <= m) - 1)

\* Mutant of NormArxivIdText: the version suffix stays.
NormArxivIdTextVersioned(raw_id) ==
    IF raw_id = <<>> THEN <<>> ELSE LastSegment(RStripSlash(raw_id))

\* _norm_arxiv_id(raw_id)
NormArxivIdText(raw_id) ==
    IF raw_id = <<>> THEN <<>>
    ELSE StripVersion(LastSegment(RStripSlash(raw_id)))

RECURSIVE ArxivIdEntries(_, _, _)
\* The loop  for e in entries: raw_id, nid, and the test against seen_ids.
\* acc = [out, seen]; an item keeps the place  at  of its entry in the listing.
ArxivIdEntries(entries, cat, acc) ==
    IF entries = <<>> THEN acc
    ELSE LET e      == Head(entries)
             raw_id == IF e.id # <<>> THEN e.id ELSE e.link
             nid    == NormArxivIdText(raw_id)
         IN  IF nid \in acc.seen
             THEN ArxivIdEntries(Tail(entries), cat, acc)
             ELSE ArxivIdEntries(Tail(entries), cat,
                    [seen |-> acc.seen \cup {nid},
                     out  |-> Append(acc.out, [id |-> nid, category |-> cat,
                                               at |-> e.at])])

RECURSIVE ArxivIdCategories(_, _)
\* The loop  for cat in categories  over the listing of each category.
ArxivIdCategories(listing, acc) ==
    IF listing = <<>> THEN acc
    ELSE ArxivIdCategories(Tail(listing),
                           ArxivIdEntries(Head(listing).entries, Head(listing).cat, acc))

\* ----------------------------------------- specification: arXiv's ids

\* The longest provider id drawn.
MaxRawLen == 3

\* The provider ids drawn: every text of up to MaxRawLen characters over a
\* path separator, the letter v, a digit and a letter.
RawIds == SeqsUpTo({"/", "v", "1", "a"}, MaxRawLen)

\* The listings drawn: two entries, the second with a provider id shorter than
\* MaxRawLen, in one category or one in each of two; an entry without id
\* falls back to its link.
IdListings ==
    {IF split
     THEN <<[cat |-> "c1", entries |-> <<[id |-> r1, link |-> <<"l", "/", "a">>, at |-> 1]>>],
            [cat |-> "c2", entries |-> <<[id |-> r2, link |-> <<"l", "/", "a">>, at |-> 2]>>]>>
     ELSE <<[cat |-> "c1", entries |-> <<[id |-> r1, link |-> <<"l", "/", "a">>, at |-> 1],
                                         [id |-> r2, link |-> <<"l", "/", "a">>, at |-> 2]>>]>> :
        r1 \in RawIds, r2 \in {r \in RawIds : Len(r) < MaxRawLen}, split \in BOOLEAN}

InitIds ==
    /\ pc = "start"
    /\ world \in IdListings
    /\ cfg = <<>>
    /\ arg = <<>>
    /\ buckets = <<>>
    /\ ret = <<>>
    /\ err = ""

\* all_entries of arxiv.fetch, as returned
ArxivIdsStep ==
    /\ pc = "start"
    /\ ret' = ArxivIdCategories(world, [out |-> <<>>, seen |-> {}]).out
    /\ pc' = "returned"
    /\ UNCHANGED <<cfg, world, arg, buckets, err>>

NextIds == ArxivIdsStep

SpecIds == InitIds /\ [][NextIds]_vars

\* The entries listed, in the order the adapter meets them.
IdEntries ==
    IF Len(world) = 1 THEN world[1].entries
    ELSE world[1].entries \o world[2].entries

\* The provider id of an entry.
RawIdOf(e) == IF e.id # <<>> THEN e.id ELSE e.link

\* Whether s is a version suffix: the letter v and one or more digits.
IsVersionSuffix(s) ==
    Len(s) >= 2 /\ s[1] = "v" /\ \A i \in 2..Len(s) : IsDigit(s[i])

\* Whether nid is the last path segment of raw with a trailing version suffix
\* stripped: raw is  head, nid, suffix, slashes  with head empty or ending in
\* a slash, nid free of slashes, and suffix empty or a version suffix that
\* starts at the first place where one can start.
IsNormalizedIdOf(nid, raw) ==
    /\ \A i \in 1..Len(nid) : nid[i] # "/"
    /\ \E h \in 0..Len(raw) : \E x \in 0..Len(raw) : \E z \in 0..Len(raw) :
          /\ h + Len(nid) + x + z = Len(raw)
          /\ h > 0 => (raw[h] = "/" /\ (Len(nid) + x > 0 \/ h = Len(raw) - z))
          /\ SubSeq(raw, h + 1, h + Len(nid)) = nid
          /\ \A i \in (Len(raw) - z + 1)..Len(raw) : raw[i] = "/"
          /\ (Len(nid) + x > 0) => raw[Len(raw) - z] # "/"
          /\ (Len(nid) + x = 0) => h = 0 \/ \A i \in 1..Len(raw) : raw[i] = "/"
          /\ \A i \in (h + 1)..(Len(raw) - z) : raw[i] # "/"
          /\ x > 0 => IsVersionSuffix(SubSeq(raw, h + Len(nid) + 1, Len(raw) - z))
          /\ \A n \in 1..Len(nid) :
                ~IsVersionSuffix(SubSeq(raw, h + n, Len(raw) - z))

\* C24: the arXiv adapter never returns two items with the same normalized
\* id: the id of every returned item is the last path segment of the provider
\* id with a trailing version suffix v<digits> stripped, and of the entries
\* that normalize to one id (the same paper in several categories or
\* revisions) exactly the first one met yields an item.
C24_NormalizedIdsUnique ==
    pc = "returned" =>
        /\ \A i, j \in 1..Len(ret) : ret[i].id = ret[j].id => i = j
        /\ \A i \in 1..Len(ret) :
              IsNormalizedIdOf(ret[i].id, RawIdOf(IdEntries[ret[i].at]))
        /\ \A n \in 1..Len(IdEntries) :
              \E i \in 1..Len(ret) :
                 /\ IsNormalizedIdOf(ret[i].id, RawIdOf(IdEntries[n]))
                 /\ ret[i].at <= n

\* Two revisions of one paper, listed in two categories under different
\* provider ids, came back as one item, the first.
C24_Witness ==
    /\ pc = "returned"
    /\ Len(world) = 2
    /\ world[1].entries[1].id = <<"a", "v", "1">>
    /\ world[2].entries[1].id = <<"/", "a">>
    /\ Len(ret) = 1
    /\ ret[1].id = <<"a">>
    /\ ret[1].category = "c1"

\* --------------------------- specification: OpenReview and its lookback
\* openreview.fetch under a lookback window set globally or in the source's
\* own block, on a venue that lists notes of several ages.

\* The listings drawn: up to two notes with ids by position, modified 1, 3, 5
\* or 7 ticks after the epoch (the clock reads 8), newest first.
WindowListings ==
    {[i \in 1..Len(p) |-> MkEntry(PosIds[i], PosIds[i], p[i])] :
        p \in {q \in SeqsUpTo({1, 3, 5, 7}, 2) :
                 \A i \in 1..(Len(q) - 1) : q[i] > q[i + 1]}}

\* The configs drawn: a global lookback_days from 1 to MaxLookback, and an
\* openreview block with the venue t1 and with or without its own
\* lookback_days.
WindowConfigs ==
    {[ConfigOf(<<[EmptyBlock("openreview") EXCEPT
                      !.has = {"targets"} \cup own, !.targets = <<"t1">>,
                      !.lookback_days = b]>>)
         EXCEPT !.has = {"lookback_days"}, !.lookback_days = g] :
        g \in 1..MaxLookback, b \in 1..MaxLookback, own \in {{}, {"lookback_days"}}}

InitWindow ==
    /\ pc = "start"
    /\ arg = [key |-> "openreview"]
    /\ cfg \in WindowConfigs
    /\ \E l \in WindowListings :
          world = [now |-> 8,
                   src |-> [k \in Range(SourceKeys) |-> Provider(TRUE, "ok", l)]]
    /\ buckets = <<>>
    /\ ret = <<>>
    /\ err = ""

NextWindow == OpenReviewStep

SpecWindow == InitWindow /\ [][NextWindow]_vars

\* The window configured for OpenReview: the block's lookback_days when
\* present, else the global one.
ConfiguredWindow ==
    Get(BlockOf(cfg.sources, "openreview"), "lookback_days", cfg.lookback_days)

\* C25: the OpenReview adapter applies the recency filter with the configured
\* lookback window (sources.openreview.lookback_days when present, else the
\* global lookback_days): with no keyword filter set, a note whose timestamp
\* lies within that window is returned, and one outside it is not.
C25_ConfiguredWindowApplied ==
    pc \in {"returned", "raised"} =>
        /\ pc = "returned"
        /\ \A i \in 1..Len(world.src["openreview"].resp["t1"].entries) :
              LET n == world.src["openreview"].resp["t1"].entries[i]
              IN  (world.now - n.pub <= ConfiguredWindow * DayTicks)
                     <=> (\E j \in 1..Len(ret) : ret[j].id = n.id)

\* C26: every item an adapter returns carries as category the target it was
\* fetched from (the arXiv category, the OpenReview venue, the feed URL, the
\* subreddit name): the category of each returned item is the configured
\* target whose listing holds the item's entry.
C26_CategoryIsTarget ==
    pc = "returned" =>
        \A i \in 1..Len(ret) :
           \E t \in AdapterTargets :
              /\ ret[i].category = t
              /\ \E e \in Range(AdapterResp[t].entries) : e.id = ret[i].id

\* ------------------------- specification: send_via_resend_broadcast
\* One call of send_via_resend_broadcast(html, plain), with key and audience
\* id set, against every answer Resend may give.

\* What Resend may answer to the create and to the send request: a status
\* around 300 and, for the create, no id, an empty id or one of two ids.
BroadcastAnswers ==
    {[create |-> [status |-> c, id |-> id], send |-> [status |-> sd, id |-> NoneVal],
      email |-> [status |-> 200, id |-> NoneVal]] :
        c \in {200, 299, 300, 500}, id \in {NoneVal, "", "b1", "b2"},
        sd \in {200, 299, 300, 500}}

InitBroadcast ==
    /\ pc = "rendered"
    /\ cfg = MainConfig
    /\ \E r \in BroadcastAnswers :
          world = [now |-> 4,
                   src |-> [key \in Range(SourceKeys) |-> Provider(TRUE, "ok", <<>>)],
                   resend |-> r]
    /\ arg = [RESEND_API_KEY |-> "re_key", RESEND_AUDIENCE_ID |-> "aud_1",
              TO_EMAIL |-> NoneVal, MAX_PER_SOURCE |-> <<>>]
    /\ buckets = <<>>
    /\ ret = [MainLocals EXCEPT !.html = RenderHtml(<<>>, NoLimit),
                                !.plain = RenderPlaintext(<<>>, NoLimit)]
    /\ err = ""

NextBroadcast ==
    \/ BroadcastCreateStep
    \/ BroadcastSendStep

SpecBroadcast == InitBroadcast /\ [][NextBroadcast]_vars

\* The places in the requests issued of the requests to a url.
RequestsTo(url) == {i \in 1..Len(ret.requests) : ret.requests[i].url = url}

\* C27: send_via_resend_broadcast follows the order create, then send: a send
\* request is issued only after the create request got a status below 300 and
\* a non-empty broadcast id, and it targets exactly that id; when the create
\* step fails or returns no id the function raises and issues no send
\* request; a call issues at most one create and at most one send request.
C27_CreateThenSend ==
    /\ Cardinality(RequestsTo("broadcasts")) <= 1
    /\ Cardinality(RequestsTo("broadcasts/id/send")) <= 1
    /\ \A i \in RequestsTo("broadcasts/id/send") :
          /\ i = 2
          /\ ret.requests[1].url = "broadcasts"
          /\ world.resend.create.status < 300
          /\ world.resend.create.id \notin {NoneVal, ""}
          /\ ret.requests[i].id = world.resend.create.id
    /\ (/\ RequestsTo("broadcasts") # {}
        /\ \/ world.resend.create.status >= 300
           \/ world.resend.create.id \in {NoneVal, ""})
       => /\ pc = "raised"
          /\ err \in {"Resend Broadcast create error",
                      "Resend Broadcast create response missing id"}
          /\ RequestsTo("broadcasts/id/send") = {}
    /\ (pc = "done") => Len(ret.requests) = 2

\* The create request was answered 299 with the id b2 and the send request
\* for b2 followed.
C27_Witness ==
    /\ pc = "done"
    /\ world.resend.create = [status |-> 299, id |-> "b2"]
    /\ Len(ret.requests) = 2
    /\ ret.requests[2].id = "b2"

\* ------------------------ specification: the dashboard's combined list
\* The dashboard's fetch_all on providers that list the same entries for every
\* source, some of them twice.

\* The listings drawn: up to MaxEntries dated entries with the id a or b.
DashListings ==
    {[i \in 1..Len(p) |-> MkEntry(p[i][1], p[i][1], p[i][2])] :
        p \in SeqsUpTo({"a", "b"} \X {2, 3}, MaxEntries)}

InitDash ==
    /\ pc = "start"
    /\ cfg = MainConfig
    /\ \E l \in DashListings :
          world = [now |-> 4,
                   src |-> [key \in Range(SourceKeys) |-> Provider(TRUE, "ok", l)]]
    /\ arg = <<>>
    /\ buckets = <<>>
    /\ ret = <<>>
    /\ err = ""

NextDash == DashFetchStep

SpecDash == InitDash /\ [][NextDash]_vars

\* The places of the dashboard's buckets: <<k, j>> for the j-th item of the
\* k-th bucket.
BucketPlaces ==
    {<<k, j>> : k \in 1..Len(SourceKeys), j \in 1..MaxEntries} \cap
    {pl \in (1..Len(ret.buckets)) \X (1..MaxEntries) :
        pl[2] <= Len(ret.buckets[pl[1]].items)}

\* The item at a place of the buckets.
ItemAt(pl) == ret.buckets[pl[1]].items[pl[2]]

\* Whether the item at a place is the first of its (source, id) pair in the
\* order the sources are fetched and the adapters return.
FirstOfPair(pl) ==
    \A q \in BucketPlaces :
       (ItemAt(q).source = ItemAt(pl).source /\ ItemAt(q).id = ItemAt(pl).id)
          => (q[1] > pl[1] \/ (q[1] = pl[1] /\ q[2] >= pl[2]))

\* C28: the dashboard's combined list holds no two entries with the same
\* (source, id) pair, holds for each pair the first entry in the order of the
\* enabled sources, holds entries of different sources that share an id, and
\* holds nothing that is not an item of the enabled sources' buckets.
C28_CombinedListDeduped ==
    pc = "dash" =>
        /\ \A i, j \in 1..Len(ret.deduped) :
              (/\ ret.deduped[i].source = ret.deduped[j].source
               /\ ret.deduped[i].id = ret.deduped[j].id) => i = j
        /\ \A i \in 1..Len(ret.deduped) :
              \E pl \in BucketPlaces : ItemAt(pl) = ret.deduped[i] /\ FirstOfPair(pl)
        /\ \A pl \in BucketPlaces :
              FirstOfPair(pl) => \E i \in 1..Len(ret.deduped) : ret.deduped[i] = ItemAt(pl)
        /\ \A k \in 1..Len(ret.buckets) :
              ~ret.enabled[SourceKeys[k]] => ret.buckets[k].items = <<>>

\* The combined list lost a duplicate of one source and holds the same id
\* under two sources.
C28_Witness ==
    /\ pc = "dash"
    /\ Cardinality(BucketPlaces) > Len(ret.deduped)
    /\ \E i, j \in 1..Len(ret.deduped) :
          /\ ret.deduped[i].id = ret.deduped[j].id
          /\ ret.deduped[i].source # ret.deduped[j].source

\* ------------------------- specification: items without an id and a link
\* dedupe_buckets on one bucket whose items may lack the id, the link or both
\* and differ in title and summary.

\* The items drawn: id and link absent (None), empty or set; two titles, each
\* with its own summary.
KeylessItems ==
    {[id |-> i, link |-> l, title |-> t[1], summary |-> t[2], oid |-> 0] :
        i \in {NoneVal, "", "a"}, l \in {NoneVal, "", "l"},
        t \in {<<"T1", "s1">>, <<"T2", "s2">>}}

InitKeyless ==
    /\ pc = "start"
    /\ \E q \in SeqsUpTo(KeylessItems, MaxItems) :
          arg = <<[name |-> SourceNames[2], items |-> WithOid(q)]>>
    /\ buckets = arg
    /\ cfg = <<>>
    /\ world = <<>>
    /\ ret = <<>>
    /\ err = ""

NextKeyless == DedupeStep

SpecKeyless == InitKeyless /\ [][NextKeyless]_vars

\* The places of the items of a list that have neither an id nor a link.
Keyless(items) ==
    {i \in 1..Len(items) :
        /\ items[i].id = NoneVal \/ items[i].id = ""
        /\ items[i].link = NoneVal \/ items[i].link = ""}

\* C29: of the items of one bucket that have neither an id nor a link, however
\* many there are and whatever their titles and summaries, dedupe_buckets keeps
\* exactly the first and drops the others.
C29_KeylessItemsCollapse ==
    pc = "deduped" =>
        \A b \in 1..Len(arg) :
            LET inp == arg[b].items
                res == buckets[b].items
            IN  Keyless(inp) # {} =>
                    /\ Cardinality(Keyless(res)) = 1
                    /\ \A i \in Keyless(res) :
                          \E j \in Keyless(inp) :
                             res[i] = inp[j] /\ \A k \in Keyless(inp) : j <= k

\* Three items without id and link, not all with the same title, went in and
\* one came out.
C29_Witness ==
    /\ pc = "deduped"
    /\ Cardinality(Keyless(arg[1].items)) = 3
    /\ \E i, j \in Keyless(arg[1].items) :
          /\ arg[1].items[i].title # arg[1].items[j].title
          /\ arg[1].items[i].summary # arg[1].items[j].summary
    /\ Len(buckets[1].items) = 1

\* ------------------------------ specification: user source preferences
\* src/db.py: the table user_sources(user_id, source) with the primary key
\* (user_id, source), written by set_user_sources and read by
\* get_user_sources. world.user_sources is the table, a sequence of rows in
\* insertion order; arg[u] is the sources argument of the last
\* set_user_sources call for user u, <<>> before the first.

\* The longest sources list a call passes.
MaxSources == 2

UserIds == {1, 2}

SourceChoices == {"arxiv", "hn"}

\* Mutant of ListOfSet: the list is passed on as it is.
ListOfSetAsGiven(sources) == {sources}

\* sources = list(set(sources)): every name once, in an order the hash seed
\* decides.
ListOfSet(sources) ==
    {l \in SeqsUpTo(Range(sources), Cardinality(Range(sources))) :
        /\ Len(l) = Cardinality(Range(sources))
        /\ Range(l) = Range(sources)}

\* DELETE FROM user_sources WHERE user_id=:uid
DeleteRows(table, uid) == SelectSeq(table, LAMBDA r : r.user_id # uid)

RECURSIVE InsertRows(_, _, _)
\* for s in sources: INSERT INTO user_sources(user_id, source) VALUES(:uid,:s);
\* a row whose (user_id, source) is in the table violates the primary key.
InsertRows(table, uid, sources) ==
    IF sources = <<>> THEN [raised |-> "", table |-> table]
    ELSE IF \E i \in 1..Len(table) :
               table[i].user_id = uid /\ table[i].source = Head(sources)
    THEN [raised |-> "IntegrityError", table |-> table]
    ELSE InsertRows(Append(table, [user_id |-> uid, source |-> Head(sources)]),
                    uid, Tail(sources))

\* set_user_sources with the list  list(set(sources))  came out as: the
\* statements run in one transaction (engine.begin()), which is rolled back
\* when one of them raises.
SetUserSources(table, uid, listed) ==
    LET out == InsertRows(DeleteRows(table, uid), uid, listed)
    IN  IF out.raised # "" THEN [raised |-> out.raised, table |-> table] ELSE out

\* get_user_sources: SELECT source FROM user_sources WHERE user_id=:uid
GetUserSources(table, uid) ==
    LET rows == SelectSeq(table, LAMBDA r : r.user_id = uid)
    IN  [i \in 1..Len(rows) |-> rows[i].source]

\* The state after ensure_schema on a new database: the table is empty.
InitPrefs ==
    /\ pc = "open"
    /\ world = [user_sources |-> <<>>]
    /\ arg = [u \in UserIds |-> <<>>]
    /\ ret = [uid |-> 0, before |-> <<>>, sources |-> <<>>]
    /\ err = ""
    /\ cfg = <<>>
    /\ buckets = <<>>

\* set_user_sources(engine, u, sources)
SetUserSourcesStep ==
    /\ err = ""
    /\ \E u \in UserIds, sources \in SeqsUpTo(SourceChoices, MaxSources) :
       \E listed \in ListOfSet(sources) :
       \E out \in {SetUserSources(world.user_sources, u, listed)} :
          /\ world' = [world EXCEPT !.user_sources = out.table]
          /\ err' = out.raised
          /\ arg' = [arg EXCEPT ![u] = <<sources>>]
          /\ ret' = [uid |-> u, before |-> world.user_sources, sources |-> <<>>]
    /\ pc' = "set"
    /\ UNCHANGED <<cfg, buckets>>

\* get_user_sources(engine, u)
GetUserSourcesStep ==
    /\ err = ""
    /\ \E u \in UserIds :
          ret' = [uid |-> u, before |-> world.user_sources,
                  sources |-> GetUserSources(world.user_sources, u)]
    /\ pc' = "got"
    /\ UNCHANGED <<cfg, world, arg, buckets, err>>

NextPrefs == SetUserSourcesStep \/ GetUserSourcesStep

SpecPrefs == InitPrefs /\ [][NextPrefs]_vars

\* The names of the last set_user_sources call for u, none before the first.
LastSet(u) == IF arg[u] = <<>> THEN {} ELSE Range(arg[u][1])

\* C30: set_user_sources always succeeds, also with a name listed twice, and
\* leaves the rows of every other user as they were; get_user_sources(u)
\* returns each name of the last set_user_sources call for u once and nothing
\* else, and nothing when no call was made for u.
C30_PreferencesReplacedPerUser ==
    /\ err = ""
    /\ pc = "set" =>
          \A v \in UserIds \ {ret.uid} :
             GetUserSources(world.user_sources, v) = GetUserSources(ret.before, v)
    /\ pc = "got" =>
          /\ Range(ret.sources) = LastSet(ret.uid)
          /\ Len(ret.sources) = Cardinality(LastSet(ret.uid))

\* A user whose last call named one source twice, after an earlier state with
\* other rows, reads back that one name while the other user holds two.
C30_Witness ==
    /\ pc = "got"
    /\ arg[ret.uid] # <<>>
    /\ Len(arg[ret.uid][1]) = 2
    /\ ret.sources = <<"hn">>
    /\ \E v \in UserIds \ {ret.uid} :
          Len(GetUserSources(world.user_sources, v)) = 2

============================================================================
